---------------------------- MODULE Spec2Model ----------------------------
(***************************************************************************)
(* TSC tuber segmentation pipeline: the orchestrator (run_pipeline.py),    *)
(* the five stage scripts it runs as subprocesses (0_prepare_data.py ..    *)
(* 4_segment_tubers.py) and the project directory tree they share.         *)
(*                                                                         *)
(* A work unit's directory under a root is abstracted to its kind:         *)
(*   "absent"   no subdirectory of that name                               *)
(*   "empty"    the subdirectory exists and holds nothing                  *)
(*   "partial"  NIfTI files, at least one of T1/T2/FLAIR missing           *)
(*   "single"   T1, T2 and FLAIR present, exactly one T2                   *)
(*   "multi"    T1, T2 and FLAIR present, more than one T2                 *)
(*   "seg"      segmentation NIfTI plus the unit's volume_results.txt      *)
(* Containers are opaque: an invocation either exits 0 and writes its      *)
(* output ("ok"), exits 0 and writes nothing ("noout"), or exits non-zero  *)
(* ("fail").                                                               *)
(***************************************************************************)
EXTENDS Integers, Sequences, FiniteSets, TLC

\* ------------------------------------------------------------------ bounds
MaxUnits == 2
MaxRuns == 2
MaxBinds == 2

\* ------------------------------------------------------- program constants
NumStages == 5
EXIT_OK == 0
EXIT_FAIL == 1
EXIT_INTERRUPT == 130

Units == 1..MaxUnits
Stages == 0..(NumStages - 1)

Kinds == {"absent", "empty", "partial", "single", "multi", "seg"}
InputKinds == {"absent", "empty", "partial", "single", "multi"}
Outcomes == {"ok", "noout", "fail"}

VARIABLES
    inp,          \* TSC_MRI_SUB: unit -> kind (the project's input, never written)
    out,          \* stage -> (unit -> kind): the five stage output roots
    agg,          \* results/volume_results.txt (the merged report) exists
    runNo,        \* number of orchestrator invocations started
    force,        \* args.force of the current invocation
    startFrom,    \* args.start_from of the current invocation
    idx,          \* position of main's for loop over steps
    pc,           \* "idle", "loop", "waiting", "returned", "done"
    success,      \* the value run_step returned
    exitCode,     \* exit status of the orchestrator, -1 while it runs
    status,       \* stage -> state of the stage in the current invocation
    launched,     \* stages whose script was started in the current invocation
    prev,         \* the invocation before, when it had the same options as
                  \* this one and no force: its exit status and the stage it
                  \* halted at (-1: none)
    spc,          \* stage process: "none", "prepare", "loop", "exited"
    subjects,     \* stage process: discover_subjects' result
    combine,      \* stage 2: subjects_needing_combination
    todo,         \* stage process: units still to be processed, in processing order
    successCount, \* stage process: success_count
    failed,       \* stage process: failed_subjects
    outcome,      \* stage process: unit -> how its executor ended
    scode,        \* stage process: exit status, -1 while it runs
    invoked,      \* stage process: units whose executor called run_container
    arg,          \* the arguments of a function evaluated on its own
    res,          \* <<its result>>, <<>> before it is evaluated
    host,         \* engine -> state of its CLI on the host
    mstage,       \* number of the stage script that owns the DockerManager
    mpc,          \* that stage process: "idle", "start", "ready", "exited"
    runtime,      \* DockerManager.runtime, "none" when there is none
    probes,       \* engines whose probe command _detect_container_runtime ran
    cmd,          \* the command run_container constructed last
    ret,          \* <<what run_container returned or raised>>, <<>> before
    used,         \* engines that ran a container in this orchestrator run
    nproc,        \* units the stage process handed to an executor
    ninv,         \* container invocations of the stage process
    mcode         \* exit status of the stage process, -1 while it runs

fsVars == <<inp, out, agg>>
mainVars == <<runNo, force, startFrom, idx, pc, success, exitCode, status, launched, prev>>
stageVars == <<spc, subjects, combine, todo, successCount, failed, outcome, scode,
               invoked>>
mgrVars == <<host, mstage, mpc, runtime, probes, cmd, ret, used, nproc, ninv, mcode>>
funVars == <<arg, res, mgrVars>>
vars == <<inp, out, agg, runNo, force, startFrom, idx, pc, success, exitCode,
          status, launched, prev, spc, subjects, combine, todo, successCount,
          failed, outcome, scode, invoked, arg, res, host, mstage, mpc, runtime,
          probes, cmd, ret, used, nproc, ninv, mcode>>

\* ------------------------------------------------------------- filesystem

\* FileValidator.find_nifti_files(dir) is non-empty
HasNifti(k) == k \in {"partial", "single", "multi", "seg"}

\* FileValidator.count_sequences(dir): T1, T2 and FLAIR all counted at least once
HasAllSequences(k) == k \in {"single", "multi"}

\* a NIfTI file whose name contains "seg" is present
HasSeg(k) == k = "seg"

\* Path.mkdir(parents=True, exist_ok=True)
Mkdir(k) == IF k = "absent" THEN "empty" ELSE k

\* list(subdir.iterdir()) is non-empty
Listing(k) == k \notin {"absent", "empty"}

\* A directory as should_skip sees it: whether it exists, its entries named
\* after units (a kind, or "file" for a plain file) and whether it holds a
\* plain file at top level besides.
DirView(k) == [exists |-> TRUE, sub |-> out[k], top |-> (k = NumStages - 1 /\ agg)]

\* sorted([...]) of a set of unit names
RECURSIVE Sorted(_)
Sorted(S) ==
    IF S = {} THEN <<>>
    ELSE LET m == CHOOSE x \in S : \A y \in S : x <= y
         IN <<m>> \o Sorted(S \ {m})

SeqToSet(s) == {s[i] : i \in 1..Len(s)}

\* Input root of a stage: TSC_MRI_SUB for stage 0, else the root before it
InDir(k) == IF k = 0 THEN inp ELSE out[k - 1]

\* ----------------------------------------------------------- orchestrator

\* mutant: should_skip takes any subdirectory, empty or not, as content
ShouldSkipAnySubdir(number, f, d) ==
    IF f \/ number = 0 THEN FALSE
    ELSE IF ~d.exists THEN FALSE
    ELSE \E u \in DOMAIN d.sub : d.sub[u] \notin {"absent", "file"}

\* mutant: should_skip looks at the directory even when force is set
ShouldSkipDespiteForce(number, f, d) ==
    IF number = 0 THEN FALSE
    ELSE IF ~d.exists THEN FALSE
    ELSE LET subdirs == {u \in DOMAIN d.sub : d.sub[u] \notin {"absent", "file"}}
         IN Cardinality(subdirs) > 0 /\ \E s \in subdirs : d.sub[s] \notin {"absent", "empty"}

\* mutant: should_skip never finds a stage done
ShouldSkipNever(number, f, d) == FALSE

\* mutant: should_skip without the exemption of stage 0
ShouldSkipEntryToo(number, f, d) ==
    IF f THEN FALSE
    ELSE IF ~d.exists THEN FALSE
    ELSE LET subdirs == {u \in DOMAIN d.sub : d.sub[u] \notin {"absent", "file"}}
         IN Cardinality(subdirs) > 0 /\ \E s \in subdirs : d.sub[s] \notin {"absent", "empty"}

\* PipelineStep.should_skip
ShouldSkip(number, f, d) ==
    IF f \/ number = 0 THEN FALSE
    ELSE IF ~d.exists THEN FALSE
    ELSE LET subdirs == {u \in DOMAIN d.sub : d.sub[u] \notin {"absent", "file"}}
         IN Cardinality(subdirs) > 0 /\ \E s \in subdirs : Listing(d.sub[s])

NoPrev == [exit |-> -1, haltedAt |-> -1]

\* The stage of the current invocation that reached Failed, -1 if none
HaltedAt == IF \E k \in Stages : status[k] = "Failed"
            THEN CHOOSE k \in Stages : status[k] = "Failed"
            ELSE -1

NoStage ==
    /\ spc = "none"
    /\ subjects = <<>>
    /\ combine = {}
    /\ todo = <<>>
    /\ successCount = 0
    /\ failed = <<>>
    /\ outcome = [u \in Units |-> "none"]
    /\ scode = -1
    /\ invoked = {}

ResetStage ==
    /\ spc' = "none"
    /\ subjects' = <<>>
    /\ combine' = {}
    /\ todo' = <<>>
    /\ successCount' = 0
    /\ failed' = <<>>
    /\ outcome' = [u \in Units |-> "none"]
    /\ scode' = -1
    /\ invoked' = {}

\* The project before the first invocation, given its input
Fresh(input) ==
    /\ inp = input
    /\ out = [k \in Stages |-> [u \in Units |-> "absent"]]
    /\ agg = FALSE
    /\ runNo = 0
    /\ force = FALSE
    /\ startFrom = 0
    /\ idx = 0
    /\ pc = "idle"
    /\ success = TRUE
    /\ exitCode = -1
    /\ status = [k \in Stages |-> "Pending"]
    /\ launched = {}
    /\ prev = NoPrev
    /\ NoStage

\* No DockerManager under observation
NoManager ==
    /\ host = [e \in {"docker", "apptainer", "singularity"} |-> "absent"]
    /\ mstage = 0
    /\ mpc = "idle"
    /\ runtime = "none"
    /\ probes = <<>>
    /\ cmd = <<>>
    /\ ret = <<>>
    /\ used = {}
    /\ nproc = 0
    /\ ninv = 0
    /\ mcode = -1

Init ==
    /\ \E input \in [Units -> InputKinds] : Fresh(input)
    /\ arg = <<>>
    /\ res = <<>>
    /\ NoManager

\* main, up to the loop: parse the options, ensure_directories, define steps
StartRun(f, s) ==
    /\ pc \in {"idle", "done"}
    /\ runNo < MaxRuns
    /\ runNo' = runNo + 1
    /\ force' = f
    /\ startFrom' = s
    /\ idx' = 0
    /\ pc' = "loop"
    /\ success' = TRUE
    /\ exitCode' = -1
    /\ status' = [k \in Stages |-> "Pending"]
    /\ launched' = {}
    /\ prev' = IF runNo > 0 /\ f = force /\ s = startFrom /\ ~f
               THEN [exit |-> exitCode, haltedAt |-> HaltedAt]
               ELSE NoPrev
    /\ UNCHANGED <<funVars, fsVars, stageVars>>

\* mutant: the step just before start-from is not passed over
BeforeStartOffByOne(number, start) == number + 1 < start

\* main: step.number < args.start_from
BeforeStart(number, start) == number < start

\* main: if step.number < args.start_from: continue
SkipBefore ==
    /\ pc = "loop"
    /\ idx < NumStages
    /\ BeforeStart(idx, startFrom)
    /\ idx' = idx + 1
    /\ UNCHANGED <<funVars, fsVars, stageVars, runNo, force, startFrom, pc, success,
                   exitCode, status, launched, prev>>

\* run_step: step.should_skip(force) is true
StepSkipped ==
    /\ pc = "loop"
    /\ idx < NumStages
    /\ ~BeforeStart(idx, startFrom)
    /\ ShouldSkip(idx, force, DirView(idx))
    /\ status' = [status EXCEPT ![idx] = "Skipped"]
    /\ success' = TRUE
    /\ pc' = "returned"
    /\ UNCHANGED <<funVars, fsVars, stageVars, runNo, force, startFrom, idx, exitCode,
                   launched, prev>>

\* run_step: the script is not found, or subprocess.run raises on launch
StepNotLaunched ==
    /\ pc = "loop"
    /\ idx < NumStages
    /\ ~BeforeStart(idx, startFrom)
    /\ ~ShouldSkip(idx, force, DirView(idx))
    /\ status' = [status EXCEPT ![idx] = "Failed"]
    /\ success' = FALSE
    /\ pc' = "returned"
    /\ UNCHANGED <<funVars, fsVars, stageVars, runNo, force, startFrom, idx, exitCode,
                   launched, prev>>

\* mutant: run_step executing the stage start-from names whatever it holds
StepLaunchedAtStart ==
    /\ pc = "loop"
    /\ idx < NumStages
    /\ ~BeforeStart(idx, startFrom)
    /\ (~ShouldSkip(idx, force, DirView(idx)) \/ idx = startFrom)
    /\ status' = [status EXCEPT ![idx] = "Running"]
    /\ launched' = launched \cup {idx}
    /\ pc' = "waiting"
    /\ spc' = "prepare"
    /\ UNCHANGED <<funVars, fsVars, runNo, force, startFrom, idx, success,
                   exitCode, prev, subjects, combine, todo, successCount,
                   failed, outcome, scode, invoked>>

\* run_step: subprocess.run starts the stage script and waits for it
StepLaunched ==
    /\ pc = "loop"
    /\ idx < NumStages
    /\ ~BeforeStart(idx, startFrom)
    /\ ~ShouldSkip(idx, force, DirView(idx))
    /\ status' = [status EXCEPT ![idx] = "Running"]
    /\ launched' = launched \cup {idx}
    /\ pc' = "waiting"
    /\ spc' = "prepare"
    /\ UNCHANGED <<funVars, fsVars, runNo, force, startFrom, idx, success,
                   exitCode, prev, subjects, combine, todo, successCount,
                   failed, outcome, scode, invoked>>

\* run_step: subprocess.run(check=True) returns or raises CalledProcessError
StepResult(code) == code = EXIT_OK

StepReturned ==
    /\ pc = "waiting"
    /\ spc = "exited"
    /\ success' = StepResult(scode)
    /\ status' = [status EXCEPT ![idx] =
                     IF StepResult(scode) THEN "Succeeded" ELSE "Failed"]
    /\ pc' = "returned"
    /\ ResetStage
    /\ UNCHANGED <<funVars, fsVars, runNo, force, startFrom, idx, exitCode, launched, prev>>

\* mutant: main goes on to the next step after a failed one
HaltsOnNothing(ok) == FALSE

\* main: what follows run_step: next step, or sys.exit(1)
HaltsOn(ok) == ~ok

\* mutant: a failed step ends the run with status 2
ExitCodeOnFailed2(event) ==
    CASE event = "complete" -> EXIT_OK
      [] event = "failed" -> 2
      [] event = "interrupt" -> EXIT_INTERRUPT
      [] event = "fatal" -> EXIT_FAIL

\* mutant: an interrupt ends the run like a failure
ExitCodeOnInterrupt1(event) ==
    CASE event = "complete" -> EXIT_OK
      [] event = "failed" -> EXIT_FAIL
      [] event = "interrupt" -> EXIT_FAIL
      [] event = "fatal" -> EXIT_FAIL

\* main: the status of each sys.exit
ExitCodeOn(event) ==
    CASE event = "complete" -> EXIT_OK
      [] event = "failed" -> EXIT_FAIL
      [] event = "interrupt" -> EXIT_INTERRUPT
      [] event = "fatal" -> EXIT_FAIL

\* mutant: main staying on the step that just returned
AdvanceSameStep ==
    /\ pc = "returned"
    /\ ~HaltsOn(success)
    /\ idx' = idx
    /\ pc' = "loop"
    /\ UNCHANGED <<funVars, fsVars, stageVars, runNo, force, startFrom, success, exitCode,
                   status, launched, prev>>

\* main: run_step returned true: the next step of the for loop
Advance ==
    /\ pc = "returned"
    /\ ~HaltsOn(success)
    /\ idx' = idx + 1
    /\ pc' = "loop"
    /\ UNCHANGED <<funVars, fsVars, stageVars, runNo, force, startFrom, success, exitCode,
                   status, launched, prev>>

Halt ==
    /\ pc = "returned"
    /\ HaltsOn(success)
    /\ pc' = "done"
    /\ exitCode' = ExitCodeOn("failed")
    /\ UNCHANGED <<funVars, fsVars, stageVars, runNo, force, startFrom, idx, success,
                   status, launched, prev>>

\* mutant: main starting the loop over again at its end
CompleteRestarts ==
    /\ pc = "loop"
    /\ idx = NumStages
    /\ idx' = 0
    /\ UNCHANGED <<funVars, fsVars, stageVars, runNo, force, startFrom, pc, success,
                   exitCode, status, launched, prev>>

\* main: the loop is over: PIPELINE COMPLETE, sys.exit(0)
Complete ==
    /\ pc = "loop"
    /\ idx = NumStages
    /\ pc' = "done"
    /\ exitCode' = ExitCodeOn("complete")
    /\ UNCHANGED <<funVars, fsVars, stageVars, runNo, force, startFrom, idx, success,
                   status, launched, prev>>

\* main: except KeyboardInterrupt, raised out of subprocess.run, which kills
\* the stage process before re-raising
Interrupt ==
    /\ pc = "waiting"
    /\ spc \in {"prepare", "loop"}
    /\ pc' = "done"
    /\ exitCode' = ExitCodeOn("interrupt")
    /\ status' = [status EXCEPT ![idx] = "Aborted"]
    /\ ResetStage
    /\ UNCHANGED <<funVars, fsVars, runNo, force, startFrom, idx, success, launched, prev>>

\* main: except Exception, raised by run_step outside its own try block
\* (Path.exists on an unreadable path)
FatalError ==
    /\ pc = "loop"
    /\ idx < NumStages
    /\ ~BeforeStart(idx, startFrom)
    /\ pc' = "done"
    /\ exitCode' = ExitCodeOn("fatal")
    /\ UNCHANGED <<funVars, fsVars, stageVars, runNo, force, startFrom, idx, success,
                   status, launched, prev>>

\* ----------------------------------------------------------- stage scripts

\* discover_subjects: the sorted names of the subdirectories of a root
DiscoverSubjects(dir) == Sorted({u \in DOMAIN dir : dir[u] # "absent"})

\* mutant: needs_t2_combination true of any unit with a T2 file
NeedsT2CombinationAnyT2(k) == k \in {"single", "multi"}

\* needs_t2_combination: counts["T2"] > 1
NeedsT2Combination(k) == k = "multi"

\* What a stage's container leaves in the unit's output directory when it
\* works: stages 1 and 3 one file per input file, stage 2 the inputs with
\* the T2 files combined into one, stage 4 the segmentation and its volumes
ContainerOutput(stage, ink) ==
    CASE stage = 2 -> "single"
      [] stage = 4 -> "seg"
      [] OTHER -> ink

\* 0_prepare_data.process_subject: copy the unit's files, then validate
ProcessSubject0(ink, old) ==
    IF ~HasNifti(ink)
    THEN [ok |-> FALSE, out |-> Mkdir(old), res |-> "missing", called |-> FALSE]
    ELSE [ok |-> HasAllSequences(ink), out |-> ink,
          res |-> IF HasAllSequences(ink) THEN "ok" ELSE "invalid", called |-> FALSE]

\* mutant: process_subject without the test of input_count
ProcessSubject13NoCheck(stage, ink, old, c) ==
    IF c = "fail"
    THEN [ok |-> FALSE, out |-> Mkdir(old), res |-> "crash", called |-> TRUE]
    ELSE LET o == IF c = "ok" THEN ContainerOutput(stage, ink) ELSE Mkdir(old)
         IN [ok |-> HasNifti(o), out |-> o,
             res |-> IF HasNifti(o) THEN "ok" ELSE "noout", called |-> TRUE]

\* 1_skull_strip.process_subject and 3_register_to_mni.process_subject
ProcessSubject13(stage, ink, old, c) ==
    IF ~HasNifti(ink)
    THEN [ok |-> FALSE, out |-> Mkdir(old), res |-> "missing", called |-> FALSE]
    ELSE IF c = "fail"
    THEN [ok |-> FALSE, out |-> Mkdir(old), res |-> "crash", called |-> TRUE]
    ELSE LET o == IF c = "ok" THEN ContainerOutput(stage, ink) ELSE Mkdir(old)
         IN [ok |-> HasNifti(o), out |-> o,
             res |-> IF HasNifti(o) THEN "ok" ELSE "noout", called |-> TRUE]

\* copy_subject_files
CopySubjectFiles(ink, old) ==
    [ok |-> HasNifti(ink),
     out |-> IF HasNifti(ink) THEN ink ELSE Mkdir(old),
     res |-> IF HasNifti(ink) THEN "ok" ELSE "missing",
     called |-> FALSE]

\* run_t2_combination
RunT2Combination(ink, old, c) ==
    IF c = "fail"
    THEN [ok |-> FALSE, out |-> Mkdir(old), res |-> "crash", called |-> TRUE]
    ELSE LET o == IF c = "ok" THEN ContainerOutput(2, ink) ELSE Mkdir(old)
         IN [ok |-> HasNifti(o), out |-> o,
             res |-> IF HasNifti(o) THEN "ok" ELSE "noout", called |-> TRUE]

\* mutant: process_subject without the test of seg_count
ProcessSubject4NoPostcondition(ink, old, c) ==
    IF ~HasAllSequences(ink)
    THEN [ok |-> FALSE, out |-> Mkdir(old), res |-> "missing", called |-> FALSE]
    ELSE IF c = "fail"
    THEN [ok |-> FALSE, out |-> Mkdir(old), res |-> "crash", called |-> TRUE]
    ELSE LET o == IF c = "ok" THEN ContainerOutput(4, ink) ELSE Mkdir(old)
         IN [ok |-> TRUE, out |-> o, res |-> "ok", called |-> TRUE]

\* 4_segment_tubers.process_subject
ProcessSubject4(ink, old, c) ==
    IF ~HasAllSequences(ink)
    THEN [ok |-> FALSE, out |-> Mkdir(old), res |-> "missing", called |-> FALSE]
    ELSE IF c = "fail"
    THEN [ok |-> FALSE, out |-> Mkdir(old), res |-> "crash", called |-> TRUE]
    ELSE LET o == IF c = "ok" THEN ContainerOutput(4, ink) ELSE Mkdir(old)
         IN [ok |-> HasSeg(o), out |-> o,
             res |-> IF HasSeg(o) THEN "ok" ELSE "noout", called |-> TRUE]

\* The executor a stage's main calls for unit u
Executor(stage, u, c) ==
    LET ink == InDir(stage)[u]
        old == out[stage][u]
    IN CASE stage = 0 -> ProcessSubject0(ink, old)
         [] stage = 2 -> IF u \in combine THEN RunT2Combination(ink, old, c)
                         ELSE CopySubjectFiles(ink, old)
         [] stage = 4 -> ProcessSubject4(ink, old, c)
         [] OTHER -> ProcessSubject13(stage, ink, old, c)

\* Whether the executor reaches docker_manager.run_container for unit u
InvokesContainer(stage, u) ==
    CASE stage = 0 -> FALSE
      [] stage = 2 -> u \in combine
      [] stage = 4 -> HasAllSequences(InDir(stage)[u])
      [] OTHER -> HasNifti(InDir(stage)[u])

\* main of a stage script: DockerManager() finds no runtime, or pull_image
\* fails: except Exception, sys.exit(1).  Stage 0 uses no container.
StageFatal ==
    /\ pc = "waiting"
    /\ spc = "prepare"
    /\ idx > 0
    /\ spc' = "exited"
    /\ scode' = EXIT_FAIL
    /\ UNCHANGED <<funVars, fsVars, mainVars, subjects, combine, todo, successCount,
                   failed, outcome, invoked>>

\* main of a stage script: discover_subjects raises ValueError
StageNoSubjects ==
    /\ pc = "waiting"
    /\ spc = "prepare"
    /\ DiscoverSubjects(InDir(idx)) = <<>>
    /\ spc' = "exited"
    /\ scode' = EXIT_FAIL
    /\ UNCHANGED <<funVars, fsVars, mainVars, subjects, combine, todo, successCount,
                   failed, outcome, invoked>>

\* mutant: the second loop of stage 2 running over every subject
ProcessingOrderCombineAll(stage, subj, comb) ==
    IF stage = 2
    THEN SelectSeq(subj, LAMBDA u : u \notin comb) \o subj
    ELSE subj

\* The order in which a stage's main hands the units to executors: stage 2
\* the units for copy, then the units needing combination
ProcessingOrder(stage, subj, comb) ==
    IF stage = 2
    THEN SelectSeq(subj, LAMBDA u : u \notin comb) \o
         SelectSeq(subj, LAMBDA u : u \in comb)
    ELSE subj

\* main of a stage script: the runtime is found, the units are discovered
\* (stage 2: and split into units to copy and units to combine)
StageDiscovered ==
    /\ pc = "waiting"
    /\ spc = "prepare"
    /\ DiscoverSubjects(InDir(idx)) # <<>>
    /\ LET subj == DiscoverSubjects(InDir(idx))
           comb == IF idx = 2
                   THEN {u \in SeqToSet(subj) : NeedsT2Combination(InDir(idx)[u])}
                   ELSE {}
       IN /\ subjects' = subj
          /\ combine' = comb
          /\ todo' = ProcessingOrder(idx, subj, comb)
    /\ spc' = "loop"
    /\ UNCHANGED <<funVars, fsVars, mainVars, successCount, failed, outcome, scode,
                   invoked>>

\* mutant: the loop of a stage's main stops at the first failed unit
RestAfterBreak(units, ok) == IF ok THEN Tail(units) ELSE <<>>

\* The loop of a stage's main after a unit's executor returned
RestAfter(units, ok) == Tail(units)

\* main of a stage script: one iteration of the loop over the units
StageUnit(c) ==
    /\ pc = "waiting"
    /\ spc = "loop"
    /\ todo # <<>>
    /\ LET u == Head(todo)
           r == Executor(idx, u, c)
       IN /\ (~InvokesContainer(idx, u) => c = "ok")
          /\ out' = [out EXCEPT ![idx][u] = r.out]
          /\ outcome' = [outcome EXCEPT ![u] = r.res]
          /\ successCount' = IF r.ok THEN successCount + 1 ELSE successCount
          /\ failed' = IF r.ok THEN failed ELSE Append(failed, u)
          /\ todo' = RestAfter(todo, r.ok)
          /\ invoked' = IF r.called THEN invoked \cup {u} ELSE invoked
    /\ UNCHANGED <<funVars, inp, agg, mainVars, spc, subjects, combine, scode>>

\* aggregate_volume_results: the merged report is written when some unit
\* directory of the results root holds a volume_results.txt
AggregateVolumeResults(results, old) == old \/ \E u \in DOMAIN results : results[u] = "seg"

\* main of a stage script: sys.exit(1 if failed_subjects else 0)
StageExitCode(f) == IF f # <<>> THEN EXIT_FAIL ELSE EXIT_OK

\* main of a stage script: after the loop (stage 4 aggregates first)
StageFinish ==
    /\ pc = "waiting"
    /\ spc = "loop"
    /\ todo = <<>>
    /\ agg' = IF idx = NumStages - 1 THEN AggregateVolumeResults(out[idx], agg) ELSE agg
    /\ scode' = StageExitCode(failed)
    /\ spc' = "exited"
    /\ UNCHANGED <<funVars, inp, out, mainVars, subjects, combine, todo, successCount,
                   failed, outcome, invoked>>

Next ==
    \/ \E f \in BOOLEAN, s \in Stages : StartRun(f, s)
    \/ SkipBefore
    \/ StepSkipped
    \/ StepNotLaunched
    \/ StepLaunched
    \/ StepReturned
    \/ Advance
    \/ Halt
    \/ Complete
    \/ Interrupt
    \/ FatalError
    \/ StageFatal
    \/ StageNoSubjects
    \/ StageDiscovered
    \/ \E c \in Outcomes : StageUnit(c)
    \/ StageFinish

Spec == Init /\ [][Next]_vars

\* ------------------------------------------- should_skip evaluated alone

\* What a directory entry named after a unit can be: a unit directory of
\* some kind, or a plain file
DirEntries == Kinds \cup {"file"}

\* The directories should_skip can be given: one that does not exist holds
\* nothing
SkipDirs ==
    {d \in [exists : BOOLEAN, sub : [Units -> DirEntries], top : BOOLEAN] :
        ~d.exists => (d.top = FALSE /\ \A u \in Units : d.sub[u] = "absent")}

SkipInit ==
    /\ Fresh([u \in Units |-> "absent"])
    /\ arg \in [number : Stages, force : BOOLEAN, dir : SkipDirs]
    /\ res = <<>>
    /\ NoManager

\* step.should_skip(force)
ShouldSkipEval ==
    /\ res = <<>>
    /\ res' = <<ShouldSkip(arg.number, arg.force, arg.dir)>>
    /\ UNCHANGED <<fsVars, mainVars, stageVars, arg, mgrVars>>

SkipNext == ShouldSkipEval

SkipSpec == SkipInit /\ [][SkipNext]_vars

\* ------------------------------------------------------------ DockerManager

\* Strings are sequences of symbols; a symbol is a separator ("/", ":"), a
\* name or a whole word of a command line.
Word(w) == <<w>>

\* _detect_container_runtime tries the engines in this order
EngineOrder == <<"docker", "apptainer", "singularity">>
Engines == {"docker", "apptainer", "singularity"}

\* An engine's CLI on the host: "absent" shutil.which finds nothing,
\* "broken" the CLI is found and its probe command exits non-zero,
\* "ok" the CLI is found and its probe command exits 0
CliStates == {"absent", "broken", "ok"}
HostStates == [Engines -> CliStates]

\* _detect_container_runtime from the i-th engine on, probed the engines
\* probed so far: which, then the probe command, then the next engine
RECURSIVE DetectFrom(_, _, _)
DetectFrom(h, i, probed) ==
    IF i > Len(EngineOrder)
    THEN [runtime |-> "none", probes |-> probed]
    ELSE LET e == EngineOrder[i]
         IN IF h[e] = "absent" THEN DetectFrom(h, i + 1, probed)
            ELSE IF h[e] = "ok" THEN [runtime |-> e, probes |-> Append(probed, e)]
            ELSE DetectFrom(h, i + 1, Append(probed, e))

\* mutant: the first engine whose CLI is on the path, probe or no probe
DetectFirstInstalled(h) ==
    IF h["docker"] # "absent" THEN [runtime |-> "docker", probes |-> <<"docker">>]
    ELSE IF h["apptainer"] # "absent" THEN [runtime |-> "apptainer", probes |-> <<"apptainer">>]
    ELSE IF h["singularity"] # "absent" THEN [runtime |-> "singularity", probes |-> <<"singularity">>]
    ELSE [runtime |-> "none", probes |-> <<>>]

\* DockerManager._detect_container_runtime; "none": RuntimeError
DetectContainerRuntime(h) == DetectFrom(h, 1, <<>>)

\* mutant: str.replace that replaces nothing
ReplaceNothing(s, old, new) == s

\* str.replace(old, new): every occurrence, left to right
RECURSIVE Replace(_, _, _)
Replace(s, old, new) ==
    IF Len(s) < Len(old) THEN s
    ELSE IF SubSeq(s, 1, Len(old)) = old
         THEN new \o Replace(SubSeq(s, Len(old) + 1, Len(s)), old, new)
         ELSE <<Head(s)>> \o Replace(Tail(s), old, new)

\* The read-only suffix of a container path
RoSuffix == <<":", "ro">>

\* The requests run_container is given.  volumes is a dict: an ordered list
\* of (host path, container path with or without the read-only suffix)
\* whose host paths differ; workdir <<>> is None.
Image == Word("image")
HostPaths == {<<"/", "in">>, <<"/", "out">>, <<"/", "masks">>}
ContainerPaths == {<<"/", "input">>, <<"/", "output">>}
ContainerSpecs == ContainerPaths \cup {p \o RoSuffix : p \in ContainerPaths}
Bindings == [host : HostPaths, cpath : ContainerSpecs]
VolumeLists ==
    UNION {{v \in [1..n -> Bindings] :
               \A i, j \in 1..n : i # j => v[i].host # v[j].host} : n \in 0..MaxBinds}
Workdirs == {<<>>, <<"/", "app">>}
Requests == [image : {Image}, volumes : VolumeLists, use_gpu : BOOLEAN,
             capture_output : BOOLEAN, workdir : Workdirs, scratch : BOOLEAN]

\* run_container, docker: one -v per entry of volumes
RECURSIVE DockerMounts(_)
DockerMounts(vols) ==
    IF vols = <<>> THEN <<>>
    ELSE <<Word("-v"), Head(vols).host \o <<":">> \o Head(vols).cpath>>
         \o DockerMounts(Tail(vols))

\* run_container, apptainer or singularity: one --bind per entry of volumes
RECURSIVE ApptainerBinds(_)
ApptainerBinds(vols) ==
    IF vols = <<>> THEN <<>>
    ELSE <<Word("--bind"),
           Head(vols).host \o <<":">> \o Replace(Head(vols).cpath, RoSuffix, <<>>)>>
         \o ApptainerBinds(Tail(vols))

\* mutant: docker run without --rm
DockerCommandNoRm(req) ==
    <<Word("docker"), Word("run")>>
    \o (IF req.use_gpu THEN <<Word("--gpus"), Word("all")>> ELSE <<>>)
    \o DockerMounts(req.volumes)
    \o (IF req.workdir # <<>> THEN <<Word("-w"), req.workdir>> ELSE <<>>)
    \o <<req.image>>

\* run_container: the command for docker
DockerCommand(req) ==
    <<Word("docker"), Word("run"), Word("--rm")>>
    \o (IF req.use_gpu THEN <<Word("--gpus"), Word("all")>> ELSE <<>>)
    \o DockerMounts(req.volumes)
    \o (IF req.workdir # <<>> THEN <<Word("-w"), req.workdir>> ELSE <<>>)
    \o <<req.image>>

\* mutant: --pwd after the --bind flags
ApptainerCommandPwdLast(rt, req) ==
    <<Word(rt), Word("run")>>
    \o (IF req.use_gpu THEN <<Word("--nv")>> ELSE <<>>)
    \o (IF req.scratch THEN <<Word("--writable-tmpfs")>> ELSE <<>>)
    \o ApptainerBinds(req.volumes)
    \o (IF req.workdir # <<>> THEN <<Word("--pwd"), req.workdir>> ELSE <<>>)
    \o <<Word("docker://") \o req.image>>

\* run_container: the command for apptainer or singularity
ApptainerCommand(rt, req) ==
    <<Word(rt), Word("run")>>
    \o (IF req.use_gpu THEN <<Word("--nv")>> ELSE <<>>)
    \o (IF req.scratch THEN <<Word("--writable-tmpfs")>> ELSE <<>>)
    \o (IF req.workdir # <<>> THEN <<Word("--pwd"), req.workdir>> ELSE <<>>)
    \o ApptainerBinds(req.volumes)
    \o <<Word("docker://") \o req.image>>

\* run_container: cmd
ContainerCommand(rt, req) ==
    IF rt = "docker" THEN DockerCommand(req) ELSE ApptainerCommand(rt, req)

\* ' '.join(cmd)
RECURSIVE JoinSpaces(_)
JoinSpaces(c) ==
    IF c = <<>> THEN <<>>
    ELSE IF Len(c) = 1 THEN c[1]
    ELSE c[1] \o <<" ">> \o JoinSpaces(Tail(c))

\* What the engine's process leaves: its exit status and its standard error
ExitStatuses == {0, 1, 137}
StderrText == Word("stderr-text")
NotAvailable == Word("N/A")

\* mutant: the error always quotes the captured standard error
ContainerResultAlwaysStderr(rt, req, c, code) ==
    IF code = 0
    THEN [raised |-> FALSE, runtime |-> rt, command |-> c, code |-> code,
          error |-> <<>>]
    ELSE [raised |-> TRUE, runtime |-> rt, command |-> JoinSpaces(c), code |-> code,
          error |-> StderrText]

\* run_container: subprocess.run(cmd, check=True): the CompletedProcess, or
\* the RuntimeError made from the CalledProcessError
ContainerResult(rt, req, c, code) ==
    IF code = 0
    THEN [raised |-> FALSE, runtime |-> rt, command |-> c, code |-> code,
          error |-> <<>>]
    ELSE [raised |-> TRUE, runtime |-> rt, command |-> JoinSpaces(c), code |-> code,
          error |-> IF req.capture_output THEN StderrText ELSE NotAvailable]

\* mutant: a manager without a runtime is used all the same
ManagerReadyDegraded(rt) == TRUE

\* DockerManager.__init__ returns (a runtime was detected) or raises
ManagerReady(rt) == rt # "none"

\* main of a stage script: docker_manager = DockerManager(logger); a
\* RuntimeError ends the script in except Exception: sys.exit(1)
Construct ==
    /\ mpc = "start"
    /\ LET d == DetectContainerRuntime(host)
       IN /\ runtime' = d.runtime
          /\ probes' = d.probes
          /\ mpc' = IF ManagerReady(d.runtime) THEN "ready" ELSE "exited"
          /\ mcode' = IF ManagerReady(d.runtime) THEN mcode ELSE EXIT_FAIL
    /\ UNCHANGED <<fsVars, mainVars, stageVars, arg, res, host, mstage, cmd, ret,
                   used, nproc, ninv>>

\* docker_manager.run_container(...) of the request and engine exit in arg
RunContainer ==
    /\ mpc = "ready"
    /\ ret = <<>>
    /\ LET c == ContainerCommand(runtime, arg.req)
       IN /\ cmd' = c
          /\ ret' = <<ContainerResult(runtime, arg.req, c, arg.exit)>>
    /\ UNCHANGED <<fsVars, mainVars, stageVars, arg, res, host, mstage, mpc, runtime,
                   probes, used, nproc, ninv, mcode>>

\* One DockerManager on one host: constructed, then asked to run a container
ManagerInit ==
    /\ Fresh([u \in Units |-> "absent"])
    /\ arg \in [req : Requests, exit : ExitStatuses]
    /\ res = <<>>
    /\ host \in HostStates
    /\ mstage = 1
    /\ mpc = "start"
    /\ runtime = "none"
    /\ probes = <<>>
    /\ cmd = <<>>
    /\ ret = <<>>
    /\ used = {}
    /\ nproc = 0
    /\ ninv = 0
    /\ mcode = -1

ManagerNext == Construct \/ RunContainer

ManagerSpec == ManagerInit /\ [][ManagerNext]_vars

\* ------------------------------------- the container stages of one run

\* The host's engines change under the pipeline: a daemon stops, a module
\* is loaded or unloaded
HostChange(e, st) ==
    /\ mpc # "idle"
    /\ st # host[e]
    /\ host' = [host EXCEPT ![e] = st]
    /\ UNCHANGED <<fsVars, mainVars, stageVars, arg, res, mstage, mpc, runtime,
                   probes, cmd, ret, used, nproc, ninv, mcode>>

\* run_pipeline.main: run_step starts the next container stage's script,
\* a new process, when the stage before it exited 0
StageBegin ==
    /\ mpc \in {"idle", "exited"}
    /\ mpc = "exited" => ~HaltsOn(StepResult(mcode))
    /\ mstage < NumStages - 1
    /\ mstage' = mstage + 1
    /\ mpc' = "start"
    /\ runtime' = "none"
    /\ probes' = <<>>
    /\ nproc' = 0
    /\ ninv' = 0
    /\ mcode' = -1
    /\ UNCHANGED <<fsVars, mainVars, stageVars, arg, res, host, cmd, ret, used>>

\* main of a stage script: docker_manager.pull_image raises RuntimeError
\* (docker pull failed): except Exception, sys.exit(1)
PullImageFails ==
    /\ mpc = "ready"
    /\ runtime = "docker"
    /\ nproc = 0
    /\ mpc' = "exited"
    /\ mcode' = EXIT_FAIL
    /\ UNCHANGED <<fsVars, mainVars, stageVars, arg, res, host, mstage, runtime,
                   probes, cmd, ret, used, nproc, ninv>>

\* main of a stage script: one unit handed to its executor, which calls
\* self.runtime's run_container (inv) or returns before doing so
ProcessUnit(inv) ==
    /\ mpc = "ready"
    /\ nproc < MaxUnits
    /\ nproc' = nproc + 1
    /\ ninv' = IF inv THEN ninv + 1 ELSE ninv
    /\ used' = IF inv THEN used \cup {runtime} ELSE used
    /\ UNCHANGED <<fsVars, mainVars, stageVars, arg, res, host, mstage, mpc, runtime,
                   probes, cmd, ret, mcode>>

\* main of a stage script: sys.exit after the loop, or after
\* discover_subjects found nothing
StageExit(code) ==
    /\ mpc = "ready"
    /\ nproc = 0 => code = EXIT_FAIL
    /\ mpc' = "exited"
    /\ mcode' = code
    /\ UNCHANGED <<fsVars, mainVars, stageVars, arg, res, host, mstage, runtime,
                   probes, cmd, ret, used, nproc, ninv>>

RunInit ==
    /\ Fresh([u \in Units |-> "absent"])
    /\ arg = <<>>
    /\ res = <<>>
    /\ host \in HostStates
    /\ mstage = 0
    /\ mpc = "idle"
    /\ runtime = "none"
    /\ probes = <<>>
    /\ cmd = <<>>
    /\ ret = <<>>
    /\ used = {}
    /\ nproc = 0
    /\ ninv = 0
    /\ mcode = -1

RunNext ==
    \/ \E e \in Engines, st \in CliStates : HostChange(e, st)
    \/ StageBegin
    \/ Construct
    \/ PullImageFails
    \/ \E inv \in BOOLEAN : ProcessUnit(inv)
    \/ \E code \in {EXIT_OK, EXIT_FAIL} : StageExit(code)

RunSpec == RunInit /\ [][RunNext]_vars

\* --------------------------------------------- functions evaluated alone

\* Timer.elapsed of a run of t seconds: (hours, minutes, seconds)
Elapsed(t) == <<t \div 3600, (t % 3600) \div 60, t % 60>>

\* duration_sec as each executor computes it from timer.elapsed()
DurationSec(stage, t) ==
    IF stage = 1 THEN Elapsed(t)[2] * 60 + Elapsed(t)[3]
    ELSE Elapsed(t)[1] * 3600 + Elapsed(t)[2] * 60 + Elapsed(t)[3]

\* What can go wrong in an executor besides the container: "mkdir" the
\* unit's output directory cannot be created, "listing" the unit's input
\* directory cannot be listed
Faults == {"none", "mkdir", "listing"}

\* Whether the statement a fault hits lies outside every try block of the
\* executor: process_subject creates the output directory and lists the
\* input before its try; run_t2_combination creates the output directory
\* before its try; copy_subject_files does everything inside its try
RaisesPast(stage, comb, fault) ==
    CASE fault = "none" -> FALSE
      [] stage = 2 /\ ~comb -> FALSE
      [] stage = 2 /\ comb -> fault = "mkdir"
      [] OTHER -> TRUE

\* The value an executor returns: copy_subject_files a bool, the others
\* (success, duration)
ReturnValue(stage, comb, r, t) ==
    IF stage = 2 /\ ~comb THEN <<r.ok>>
    ELSE <<r.ok, IF r.res \in {"missing", "crash"} THEN 0 ELSE DurationSec(stage, t)>>

\* One call of the executor of a container stage for one unit: the input
\* and output directories as they are, what the container does if it is
\* invoked, the fault that strikes, the seconds the container runs
ExecutorCall(stage, comb, ink, old, c, fault, t) ==
    LET r == CASE stage = 2 -> IF comb THEN RunT2Combination(ink, old, c)
                               ELSE CopySubjectFiles(ink, old)
               [] stage = 4 -> ProcessSubject4(ink, old, c)
               [] OTHER -> ProcessSubject13(stage, ink, old, c)
    IN IF RaisesPast(stage, comb, fault)
       THEN [raised |-> TRUE, value |-> <<>>, reason |-> fault, called |-> FALSE]
       ELSE IF fault # "none"
       THEN [raised |-> FALSE, value |-> <<FALSE>>, reason |-> fault, called |-> FALSE]
       ELSE [raised |-> FALSE, value |-> ReturnValue(stage, comb, r, t),
             reason |-> r.res, called |-> r.called]

\* Seconds a container may run: none, under a minute, an hour, over an hour
RunSeconds == {0, 59, 3600, 3725}

\* The calls of executors: stage 2 hands a unit to run_t2_combination
\* exactly when needs_t2_combination holds of its input
ExecArgs ==
    {a \in [fn : {"exec"}, stage : 1..(NumStages - 1), comb : BOOLEAN,
            ink : InputKinds \ {"absent"}, old : Kinds \ {"absent"},
            c : Outcomes, fault : Faults, t : RunSeconds] :
        /\ a.comb <=> (a.stage = 2 /\ NeedsT2Combination(a.ink))
        /\ (a.stage = 2 /\ a.comb) => a.fault # "listing"}

ExecutorEval ==
    /\ res = <<>>
    /\ arg.fn = "exec"
    /\ res' = <<ExecutorCall(arg.stage, arg.comb, arg.ink, arg.old, arg.c,
                             arg.fault, arg.t)>>
    /\ UNCHANGED <<fsVars, mainVars, stageVars, arg, mgrVars>>

\* ---- Text: a string is a sequence of symbols ----

\* The code point of a symbol's first character
Code(c) ==
    CASE c = "." -> 46
      [] c = "1" -> 49
      [] c = "Subject_ID" -> 83
      [] c = "a" -> 97
      [] c = "b" -> 98

\* str < str: by code point, a proper prefix first
RECURSIVE StrLess(_, _)
StrLess(s, t) ==
    IF t = <<>> THEN FALSE
    ELSE IF s = <<>> THEN TRUE
    ELSE IF Code(Head(s)) # Code(Head(t)) THEN Code(Head(s)) < Code(Head(t))
    ELSE StrLess(Tail(s), Tail(t))

\* sorted(names)
RECURSIVE SortedNames(_)
SortedNames(S) ==
    IF S = {} THEN <<>>
    ELSE LET m == CHOOSE x \in S : \A y \in S \ {x} : StrLess(x, y)
         IN <<m>> \o SortedNames(S \ {m})

\* str.startswith
StartsWith(s, prefix) ==
    Len(s) >= Len(prefix) /\ SubSeq(s, 1, Len(prefix)) = prefix

\* ---- aggregate_volume_results and the end of 4_segment_tubers.main ----

\* The header aggregate_volume_results writes, and the prefix by which it
\* recognises a header line of a per-unit file
HeaderPrefix == <<"Subject_ID">>
ReportHeader == <<"Subject_ID", "\t", "T1_Volume_mm3", "\t", "Generated_Timestamp", "\n">>

\* Units whose results directory may hold a volume_results.txt
ResultNames == {<<"Subject_ID", "1">>, <<"a">>, <<"b">>}

\* A data line of a unit's volume_results.txt: the Subject_ID column first
DataLine(name, v) == name \o <<"\t", v, "\n">>

\* The texts a unit's volume_results.txt may hold: the header line or none,
\* then one or two data lines
FileTexts(name) ==
    {h \o d : h \in {<<>>, <<ReportHeader>>},
              d \in {<<DataLine(name, "v1")>>,
                     <<DataLine(name, "v1"), DataLine(name, "v2")>>,
                     <<DataLine(name, "v2"), DataLine(name, "v1")>>}}

\* results_dir.glob("*/volume_results.txt") with the text of each file
VolumeFiles ==
    UNION {{f \in [S -> UNION {FileTexts(n) : n \in S}] :
               \A n \in S : f[n] \in FileTexts(n)} : S \in SUBSET ResultNames}

\* for line in lines: if not line.startswith("Subject_ID"): write(line)
KeptLines(lines) ==
    LET Keep(l) == ~StartsWith(l, HeaderPrefix) IN SelectSeq(lines, Keep)

\* for vol_file in sorted(volume_files): the lines written, file by file
RECURSIVE AppendedLines(_, _)
AppendedLines(files, order) ==
    IF order = <<>> THEN <<>>
    ELSE KeptLines(files[Head(order)]) \o AppendedLines(files, Tail(order))

\* mutant: aggregate_volume_results without the test of volume_files
AggregateVolumeTextAlways(files, ioerr) ==
    IF ioerr THEN [written |-> FALSE, text |-> <<>>, log |-> "error"]
    ELSE [written |-> TRUE,
          text |-> <<ReportHeader>> \o AppendedLines(files, SortedNames(DOMAIN files)),
          log |-> "info"]

\* aggregate_volume_results: the merged report it leaves and the level of
\* what it logs; ioerr: the report cannot be opened for writing (the
\* except clause logs the error)
AggregateVolumeText(files, ioerr) ==
    IF DOMAIN files = {} THEN [written |-> FALSE, text |-> <<>>, log |-> "warning"]
    ELSE IF ioerr THEN [written |-> FALSE, text |-> <<>>, log |-> "error"]
    ELSE [written |-> TRUE,
          text |-> <<ReportHeader>> \o AppendedLines(files, SortedNames(DOMAIN files)),
          log |-> "info"]

\* 4_segment_tubers.main after the loop: aggregation, the summary,
\* sys.exit(1 if failed_subjects else 0)
SegmentEnd(files, ioerr, failed_subjects) ==
    [agg |-> AggregateVolumeText(files, ioerr), raised |-> FALSE,
     code |-> StageExitCode(failed_subjects)]

AggArgs ==
    [fn : {"agg"}, files : VolumeFiles, ioerr : BOOLEAN,
     failed : {<<>>, <<(<<"a">>)>>}]

AggregateEval ==
    /\ res = <<>>
    /\ arg.fn = "agg"
    /\ res' = <<SegmentEnd(arg.files, arg.ioerr, arg.failed)>>
    /\ UNCHANGED <<fsVars, mainVars, stageVars, arg, mgrVars>>

\* ---- discover_subjects and the stage main that calls it ----

\* Names an input root may hold
EntryNames == {<<".", "a">>, <<"a">>, <<"a", "1">>, <<"b">>}

\* An input root: whether it exists and, by name, its entries, each a
\* directory or a plain file
Roots ==
    {[exists |-> FALSE, entries |-> <<>>]}
    \cup UNION {[exists : {TRUE}, entries : [S -> {"dir", "file"}]] :
                   S \in SUBSET EntryNames}

\* mutant: discover_subjects without the test of the leading dot
DiscoverSubjectNamesWithHidden(root) ==
    IF ~root.exists THEN [raised |-> TRUE, subjects |-> <<>>]
    ELSE LET s == SortedNames({n \in DOMAIN root.entries : root.entries[n] = "dir"})
         IN [raised |-> s = <<>>, subjects |-> s]

\* discover_subjects over names: ValueError or the sorted names
DiscoverSubjectNames(root) ==
    IF ~root.exists THEN [raised |-> TRUE, subjects |-> <<>>]
    ELSE LET s == SortedNames({n \in DOMAIN root.entries :
                                  /\ root.entries[n] = "dir"
                                  /\ ~StartsWith(n, <<".">>)})
         IN [raised |-> s = <<>>, subjects |-> s]

\* main of a stage script from discover_subjects on: except Exception,
\* sys.exit(1); else every subject handed to the executor, those of bad
\* failing, sys.exit(1 if failed_subjects else 0)
StageMain(root, bad) ==
    LET d == DiscoverSubjectNames(root)
        Bad(n) == n \in bad
    IN IF d.raised
       THEN [raised |-> TRUE, subjects |-> <<>>, processed |-> <<>>, code |-> EXIT_FAIL]
       ELSE [raised |-> FALSE, subjects |-> d.subjects, processed |-> d.subjects,
             code |-> StageExitCode(SelectSeq(d.subjects, Bad))]

DiscoverArgs ==
    [fn : {"discover"}, root : Roots, bad : SUBSET {<<"a">>, <<"b">>}]

DiscoverEval ==
    /\ res = <<>>
    /\ arg.fn = "discover"
    /\ res' = <<StageMain(arg.root, arg.bad)>>
    /\ UNCHANGED <<fsVars, mainVars, stageVars, arg, mgrVars>>

\* ---- detect_gpu and the GPU flag of 4_segment_tubers ----

\* Values of USE_GPU in the environment ("unset": the variable is not set)
GpuEnv == {"unset", "auto", "true", "TRUE", "false", "False", "1"}

\* os.environ.get("USE_GPU", "auto").lower()
UseGpuEnv(env) ==
    CASE env = "unset" -> "auto"
      [] env = "TRUE" -> "true"
      [] env = "False" -> "false"
      [] OTHER -> env

\* mutant: detect_gpu without the override
DetectGpuAuto(env, which, runs) == which /\ runs

\* detect_gpu; which: shutil.which finds nvidia-smi, runs: nvidia-smi exits 0
DetectGpu(env, which, runs) ==
    IF UseGpuEnv(env) = "false" THEN FALSE
    ELSE IF UseGpuEnv(env) = "true" THEN TRUE
    ELSE IF ~which THEN FALSE
    ELSE runs

\* 4_segment_tubers.main: gpu_available = detect_gpu() and not args.no_gpu
GpuAvailable(env, which, runs, no_gpu) == DetectGpu(env, which, runs) /\ ~no_gpu

\* 4_segment_tubers.process_subject: the request it hands to run_container
SegmentRequest(use_gpu) ==
    [image |-> Image,
     volumes |-> <<[host |-> <<"/", "in">>, cpath |-> <<"/", "input">> \o RoSuffix],
                   [host |-> <<"/", "out">>, cpath |-> <<"/", "output">>]>>,
     use_gpu |-> use_gpu, capture_output |-> TRUE, workdir |-> <<"/", "app">>,
     scratch |-> FALSE]

GpuArgs ==
    [fn : {"gpu"}, env : GpuEnv, which : BOOLEAN, runs : BOOLEAN,
     no_gpu : BOOLEAN, rt : Engines]

GpuEval ==
    /\ res = <<>>
    /\ arg.fn = "gpu"
    /\ res' = <<[use_gpu |-> GpuAvailable(arg.env, arg.which, arg.runs, arg.no_gpu),
                 cmd |-> ContainerCommand(arg.rt,
                             SegmentRequest(GpuAvailable(arg.env, arg.which, arg.runs,
                                                         arg.no_gpu)))]>>
    /\ UNCHANGED <<fsVars, mainVars, stageVars, arg, mgrVars>>

\* ---- DockerManager.pull_image ----

\* mutant: pull_image pulling whether or not the image is there
PullImageAlways(rt, inspect, pulls) ==
    IF rt = "docker"
    THEN [cmds |-> <<<<Word("docker"), Word("image"), Word("inspect"), Image>>,
                     <<Word("docker"), Word("pull"), Image>>>>,
          raised |-> ~pulls]
    ELSE [cmds |-> <<>>, raised |-> FALSE]

\* pull_image; inspect: the exit status of docker image inspect, pulls:
\* docker pull exits 0. The commands it runs and whether it raises
PullImage(rt, inspect, pulls) ==
    IF rt = "docker"
    THEN IF inspect = 0
         THEN [cmds |-> <<<<Word("docker"), Word("image"), Word("inspect"), Image>>>>,
               raised |-> FALSE]
         ELSE [cmds |-> <<<<Word("docker"), Word("image"), Word("inspect"), Image>>,
                          <<Word("docker"), Word("pull"), Image>>>>,
               raised |-> ~pulls]
    ELSE [cmds |-> <<>>, raised |-> FALSE]

PullArgs ==
    [fn : {"pull"}, rt : Engines, inspect : {0, 1}, pulls : BOOLEAN]

PullEval ==
    /\ res = <<>>
    /\ arg.fn = "pull"
    /\ res' = <<PullImage(arg.rt, arg.inspect, arg.pulls)>>
    /\ UNCHANGED <<fsVars, mainVars, stageVars, arg, mgrVars>>

UtilInit ==
    /\ Fresh([u \in Units |-> "absent"])
    /\ NoManager
    /\ res = <<>>
    /\ \/ arg \in ExecArgs
       \/ arg \in AggArgs
       \/ arg \in DiscoverArgs
       \/ arg \in GpuArgs
       \/ arg \in PullArgs

UtilNext ==
    \/ ExecutorEval
    \/ AggregateEval
    \/ DiscoverEval
    \/ GpuEval
    \/ PullEval

UtilSpec == UtilInit /\ [][UtilNext]_vars

\* ------------------------------------------------------------------ claims

\* C1: fail-fast between stages.  Once a stage has failed (its subprocess
\* exited non-zero, its script was missing or its launch raised), the stage
\* is the last one the invocation touches: every later stage is still
\* Pending and was never launched, no stage process is alive, and the
\* orchestrator is about to exit, or has exited, with status 1.
C1_FailFast ==
    \A k \in Stages :
        status[k] = "Failed" =>
            /\ idx = k
            /\ pc \in {"returned", "done"}
            /\ pc = "returned" => ~success
            /\ pc = "done" => exitCode = EXIT_FAIL
            /\ spc = "none"
            /\ \A j \in Stages : j > k => status[j] = "Pending" /\ j \notin launched

\* C1 witness: stage 2's subprocess exited non-zero after stage 1 succeeded,
\* and the orchestrator has exited
C1_Witness ==
    /\ pc = "done"
    /\ exitCode = EXIT_FAIL
    /\ status[1] = "Succeeded"
    /\ status[2] = "Failed"
    /\ 2 \in launched

\* The skip-eligibility formula of the design
SkipEligible(a) ==
    /\ ~a.force
    /\ a.number > 0
    /\ a.dir.exists
    /\ \E u \in Units : a.dir.sub[u] \notin {"absent", "file", "empty"}

\* C2: should_skip returns exactly (not force) and (stage index > 0) and
\* (the output directory exists and holds a non-empty subdirectory), for
\* every force flag, stage index and directory; a directory holding only
\* empty subdirectories or only plain files is not skip-eligible.
C2_SkipEligibility ==
    res # <<>> =>
        /\ res[1] = SkipEligible(arg)
        /\ (\A u \in Units : arg.dir.sub[u] \in {"absent", "file", "empty"})
               => res[1] = FALSE

\* C2 witness: a non-entry stage without force whose directory exists and
\* holds an empty subdirectory and plain files only: not skipped
C2_Witness ==
    /\ res = <<FALSE>>
    /\ ~arg.force
    /\ arg.number > 0
    /\ arg.dir.exists
    /\ arg.dir.top
    /\ arg.dir.sub[1] = "empty"
    /\ \A u \in Units : arg.dir.sub[u] \in {"file", "empty"}

\* C3 (as claimed): a container stage in which some unit's container
\* invocation failed and at least one unit succeeded exits with status 0.
C3_PartialFailureExitsZero ==
    (/\ spc = "exited"
     /\ idx > 0
     /\ successCount >= 1
     /\ \E u \in SeqToSet(failed) : outcome[u] = "crash")
        => scode = EXIT_OK

\* The units of the running stage whose executor ended the given way
UnitsEnded(r) == {u \in SeqToSet(subjects) : outcome[u] = r}

\* C4: per-unit isolation.  While a stage loops over its units, every
\* discovered unit is either processed or still to be processed, whatever
\* happened to the units before it; when the stage process ends, every
\* discovered unit was processed, success_count counts the units that
\* succeeded and failed_subjects names, once each, the units that did not.
\* With exactly one unit whose container invocation failed and every other
\* unit succeeding, that is N-1 successes and a failed list of that unit.
C4_PerUnitIsolation ==
    /\ spc = "loop" =>
           /\ \A u \in SeqToSet(subjects) :
                  (outcome[u] = "none") <=> (u \in SeqToSet(todo))
           /\ successCount + Len(failed) + Len(todo) = Len(subjects)
    /\ (spc = "exited" /\ subjects # <<>>) =>
           /\ UnitsEnded("none") = {}
           /\ successCount = Cardinality(UnitsEnded("ok"))
           /\ SeqToSet(failed) = SeqToSet(subjects) \ UnitsEnded("ok")
           /\ Len(failed) = Cardinality(SeqToSet(failed))
           /\ \A u \in UnitsEnded("crash") :
                  UnitsEnded("ok") = SeqToSet(subjects) \ {u} =>
                      /\ successCount = Len(subjects) - 1
                      /\ failed = <<u>>

\* C4 witness: a stage ended in which the first unit's container invocation
\* failed and the unit after it was still processed and succeeded
C4_Witness ==
    /\ spc = "exited"
    /\ Len(subjects) >= 2
    /\ outcome[subjects[1]] = "crash"
    /\ UnitsEnded("ok") = SeqToSet(subjects) \ {subjects[1]}
    /\ failed = <<subjects[1]>>

\* This invocation repeats the one before it: same options, no force
Repeats == prev.exit # -1

\* C5 (as claimed): whenever the orchestrator is run twice in a row from
\* stage 0 and without force, a second run that completes has every
\* non-entry stage Skipped.
C5_SecondRunSkipsAll ==
    (Repeats /\ startFrom = 0 /\ pc = "done" /\ exitCode = EXIT_OK) =>
        \A k \in Stages : k > 0 => status[k] = "Skipped"

\* C5 (amended), the states: when the run before completed with exit
\* status 0, the repeated run executes no non-entry stage script, and when
\* it completes every non-entry stage from start-from on is Skipped.
C5_RepeatSkips ==
    (Repeats /\ prev.exit = EXIT_OK) =>
        /\ launched \subseteq {0}
        /\ \A k \in Stages : k > 0 => status[k] \in {"Pending", "Skipped"}
        /\ (pc = "done" /\ exitCode = EXIT_OK) =>
               \A k \in Stages :
                   (k > 0 /\ k >= startFrom) => status[k] = "Skipped"

\* C5 (amended), the steps: no step of such a repeated run changes a stage
\* output root or the merged report.
C5_RepeatKeepsOutputs ==
    (Repeats /\ prev.exit = EXIT_OK) => (out' = out /\ agg' = agg)

\* C5 (amended): resumability idempotence after a completed run.
C5_Resumability == [](C5_RepeatSkips) /\ [][C5_RepeatKeepsOutputs]_vars

\* C5 witness: a repeated run from stage 0 after a completed one: stage 0
\* ran again, stages 1..4 were skipped, exit status 0
C5_Witness ==
    /\ Repeats
    /\ prev.exit = EXIT_OK
    /\ startFrom = 0
    /\ pc = "done"
    /\ exitCode = EXIT_OK
    /\ status[0] = "Succeeded"
    /\ \A k \in Stages : k > 0 => status[k] = "Skipped"

\* C6 (as claimed): when the run before halted at stage k and is repeated
\* with no force and no start-from, stage k is not treated as already done.
C6_HaltedStageRunsAgain ==
    \A k \in Stages :
        (Repeats /\ prev.exit = EXIT_FAIL /\ prev.haltedAt = k /\ startFrom = 0)
            => status[k] # "Skipped"

\* C7: exit status.  The orchestrator ends with 0, 1 or 130; with 0 exactly
\* when every stage from start-from on ended Skipped or Succeeded; with 1
\* whenever a stage failed or a fatal error ended the run.
C7_ExitCodes ==
    /\ (pc = "done") <=> (exitCode # -1)
    /\ pc = "done" =>
           /\ exitCode \in {EXIT_OK, EXIT_FAIL, EXIT_INTERRUPT}
           /\ (exitCode = EXIT_OK) <=>
                  \A k \in Stages :
                      k >= startFrom => status[k] \in {"Skipped", "Succeeded"}
           /\ (\E k \in Stages : status[k] = "Failed") => exitCode = EXIT_FAIL
           /\ (exitCode = EXIT_INTERRUPT) <=> (\E k \in Stages : status[k] = "Aborted")

\* C7 witness: a run that ended with status 0 having skipped stage 1 and
\* executed stage 2
C7_Witness ==
    /\ pc = "done"
    /\ exitCode = EXIT_OK
    /\ status[1] = "Skipped"
    /\ status[2] = "Succeeded"

\* C8: cancellation.  A stage is Aborted only by an interrupt that arrived
\* while the orchestrator waited on its subprocess; then the subprocess is
\* gone, no later stage was started, and the orchestrator has exited with
\* status 130, which no run with a failed stage ends with.
C8_Cancellation ==
    /\ \A k \in Stages :
           status[k] = "Aborted" =>
               /\ k \in launched
               /\ idx = k
               /\ spc = "none"
               /\ pc = "done"
               /\ exitCode = EXIT_INTERRUPT
               /\ \A j \in Stages : j > k => status[j] = "Pending" /\ j \notin launched
    /\ (\E k \in Stages : status[k] = "Failed") => exitCode # EXIT_INTERRUPT
    /\ exitCode = EXIT_INTERRUPT => \E k \in Stages : status[k] = "Aborted"

\* C8 witness: stage 2 interrupted after it had processed its first unit
C8_Witness ==
    /\ status[2] = "Aborted"
    /\ exitCode = EXIT_INTERRUPT
    /\ out[2][1] # "absent"
    /\ out[2][2] = "absent"
    /\ out[1][2] # "absent"

\* C9: stage 0 is never skip-eligible.  In a run from stage 0, should_skip
\* is false for stage 0 whatever its output root holds and whatever the
\* force flag, stage 0 is never Skipped, and the loop gets past stage 0 only
\* after its script was executed.
C9_EntryStageNeverSkipped ==
    startFrom = 0 =>
        /\ \A f \in BOOLEAN : ~ShouldSkip(0, f, DirView(0))
        /\ status[0] # "Skipped"
        /\ (idx > 0 \/ status[0] \in {"Running", "Succeeded", "Aborted"})
               => 0 \in launched
        /\ idx > 0 => status[0] = "Succeeded"

\* C9 witness: without force, stage 0 runs although its output root already
\* holds a non-empty unit directory
C9_Witness ==
    /\ startFrom = 0
    /\ ~force
    /\ pc = "waiting"
    /\ idx = 0
    /\ spc = "prepare"
    /\ status[0] = "Running"
    /\ \E u \in Units : Listing(out[0][u])

\* C10: start-from.  No stage before start-from is evaluated or executed,
\* whatever its output root holds, and the stages from start-from on are
\* visited in increasing order: a stage is touched only when every stage
\* between start-from and it ended Skipped or Succeeded.
C10_StartFrom ==
    pc # "idle" =>
        /\ \A k \in Stages :
               k < startFrom => status[k] = "Pending" /\ k \notin launched
        /\ \A k \in Stages :
               status[k] # "Pending" =>
                   /\ k <= idx
                   /\ \A j \in Stages :
                          (startFrom <= j /\ j < k) =>
                              status[j] \in {"Skipped", "Succeeded"}
        /\ \A k \in Stages : (startFrom <= k /\ k < idx) => status[k] # "Pending"

\* C10 witness: a run from stage 3 executes stage 3 while the output roots
\* of stages 1 and 2 hold nothing; stages 0..2 are untouched
C10_Witness ==
    /\ startFrom = 3
    /\ status[3] = "Running"
    /\ \A u \in Units : out[1][u] = "absent" /\ out[2][u] = "absent"
    /\ \E u \in Units : out[0][u] # "absent"

\* C11: with --force existing outputs are ignored.  In a forced run no stage
\* is ever Skipped, and every stage from start-from on that the loop has
\* passed had its script executed and succeeded; the stage the loop is at
\* is, once touched, either executing or executed, or Failed for want of a
\* script that could be launched.
C11_ForceNeverSkips ==
    (force /\ pc # "idle") =>
        /\ \A k \in Stages : status[k] # "Skipped"
        /\ \A k \in Stages :
               (startFrom <= k /\ k < idx) =>
                   (k \in launched /\ status[k] = "Succeeded")
        /\ \A k \in Stages :
               status[k] \in {"Running", "Succeeded", "Aborted"} => k \in launched

\* C11 witness: a forced run executes stage 1, then stage 2, although both
\* output roots already hold a non-empty unit directory from the run before
C11_Witness ==
    /\ force
    /\ runNo = 2
    /\ status[1] = "Succeeded"
    /\ status[2] = "Running"
    /\ spc = "prepare"
    /\ \E u \in Units : Listing(out[1][u])
    /\ \E u \in Units : Listing(out[2][u])

\* The design's preference order of the engines
PreferenceOrder == <<"docker", "apptainer", "singularity">>

\* C12: runtime detection.  The manager's runtime is the first engine, in
\* the order docker, apptainer, singularity, whose CLI is on the path and
\* whose probe command succeeds ("none", a fatal error, when there is no
\* such engine); no engine is probed twice; a docker CLI that is present
\* and whose status command fails is probed once and is not the runtime.
C12_Detection ==
    mpc # "start" =>
        LET operable == {i \in 1..Len(PreferenceOrder) : host[PreferenceOrder[i]] = "ok"}
            first == CHOOSE i \in operable : \A j \in operable : i <= j
        IN /\ runtime = IF operable = {} THEN "none" ELSE PreferenceOrder[first]
           /\ \A i, j \in 1..Len(probes) : i # j => probes[i] # probes[j]
           /\ \A i \in 1..Len(probes) : host[probes[i]] # "absent"
           /\ host["docker"] = "broken" =>
                  /\ runtime # "docker"
                  /\ Cardinality({i \in 1..Len(probes) : probes[i] = "docker"}) = 1

\* C12 witness: docker is installed with its daemon down, apptainer and
\* singularity both work: detection falls through to apptainer
C12_Witness ==
    /\ mpc = "ready"
    /\ host["docker"] = "broken"
    /\ host["apptainer"] = "ok"
    /\ host["singularity"] = "ok"
    /\ runtime = "apptainer"
    /\ probes = <<"docker", "apptainer">>

\* C13, the states: a stage process whose manager found no runtime has
\* ended, with exit status 1, having handed no unit to an executor and
\* invoked no container; no manager without a runtime is ever in use.
C13_NoRuntimeState ==
    (mpc \in {"ready", "exited"} /\ runtime = "none") =>
        /\ mpc = "exited"
        /\ mcode = EXIT_FAIL
        /\ nproc = 0
        /\ ninv = 0
        /\ "none" \notin used

\* C13, the steps: constructing the manager on a host where no engine
\* passes its check ends the stage process at once with status 1.
C13_NoRuntimeStep ==
    (mpc = "start" /\ mpc' # "start" /\ \A e \in DOMAIN host : host[e] # "ok") =>
        /\ runtime' = "none"
        /\ mpc' = "exited"
        /\ mcode' = EXIT_FAIL
        /\ nproc' = 0
        /\ ninv' = 0
        /\ used' = used

\* C13: no engine passes its check: fatal error, no degraded mode.
C13_NoRuntimeIsFatal == [](C13_NoRuntimeState) /\ [][C13_NoRuntimeStep]_vars

\* C13 witness: stage 2 dies on construction, with docker installed but
\* not answering and no other engine, after stage 1 ran containers
C13_Witness ==
    /\ mstage = 2
    /\ mpc = "exited"
    /\ runtime = "none"
    /\ probes = <<"docker">>
    /\ mcode = EXIT_FAIL
    /\ used # {}
    /\ nproc = 0

\* C14 (as claimed): every container invocation of every stage of one
\* orchestrator run uses the same engine.
C14_OneEnginePerRun == Cardinality(used) <= 1

\* A container path as requested ends with the read-only suffix
IsReadOnly(p) == Len(p) >= 2 /\ SubSeq(p, Len(p) - 1, Len(p)) = <<":", "ro">>

\* The container path as requested without its read-only suffix
BarePath(p) == IF IsReadOnly(p) THEN SubSeq(p, 1, Len(p) - 2) ELSE p

\* Positions of a flag in a command
FlagAt(c, flag) == {i \in 1..Len(c) : c[i] = <<flag>>}

\* Positions of a command where the flag is followed by the operand
FlagWith(c, flag, operand) ==
    {i \in 1..(Len(c) - 1) : c[i] = <<flag>> /\ c[i + 1] = operand}

\* C15: volume binding translation.  For every request and engine, each
\* requested binding appears exactly once in the command, as
\* "-v host:container" with its ":ro" suffix kept for docker and as
\* "--bind host:container" with the suffix stripped for apptainer and
\* singularity, and the command has no other -v or --bind.
C15_VolumeBindings ==
    ret # <<>> =>
        LET vols == arg.req.volumes
        IN IF runtime = "docker"
           THEN /\ \A k \in 1..Len(vols) :
                       Cardinality(FlagWith(cmd, "-v",
                           vols[k].host \o <<":">> \o BarePath(vols[k].cpath)
                           \o (IF IsReadOnly(vols[k].cpath) THEN <<":", "ro">> ELSE <<>>))) = 1
                /\ Cardinality(FlagAt(cmd, "-v")) = Len(vols)
                /\ FlagAt(cmd, "--bind") = {}
           ELSE /\ \A k \in 1..Len(vols) :
                       Cardinality(FlagWith(cmd, "--bind",
                           vols[k].host \o <<":">> \o BarePath(vols[k].cpath))) = 1
                /\ Cardinality(FlagAt(cmd, "--bind")) = Len(vols)
                /\ FlagAt(cmd, "-v") = {}

\* C15 witness: apptainer given a read-only input binding and a writable
\* output binding
C15_Witness ==
    /\ ret # <<>>
    /\ runtime = "apptainer"
    /\ arg.req.volumes = <<[host |-> <<"/", "in">>, cpath |-> <<"/", "input", ":", "ro">>],
                           [host |-> <<"/", "out">>, cpath |-> <<"/", "output">>]>>
    /\ FlagWith(cmd, "--bind", <<"/", "in", ":", "/", "input">>) # {}

\* Some word of the command names the host path and marks it read-only
MarksReadOnly(c, hostPath) ==
    \E i \in 1..Len(c) :
        /\ Len(c[i]) > Len(hostPath)
        /\ SubSeq(c[i], 1, Len(hostPath)) = hostPath
        /\ \E j \in 1..Len(c[i]) : c[i][j] = "ro"

\* C16 (as claimed): under every engine, a binding requested read-only is
\* conveyed as read-only in the command.
C16_ReadOnlyConveyed ==
    ret # <<>> =>
        \A k \in 1..Len(arg.req.volumes) :
            IsReadOnly(arg.req.volumes[k].cpath) =>
                MarksReadOnly(cmd, arg.req.volumes[k].host)

\* C17: position of the working-directory flag.  The image reference is
\* the last word of the command; without a workdir there is neither -w nor
\* --pwd; with one, docker's command has one "-w workdir", after every -v
\* and just before the image, and the on-demand engines' command has one
\* "--pwd workdir" before every --bind.
C17_WorkdirPosition ==
    ret # <<>> =>
        LET w == arg.req.workdir
            n == Len(cmd)
        IN /\ cmd[n] = IF runtime = "docker" THEN arg.req.image
                       ELSE <<"docker://">> \o arg.req.image
           /\ w = <<>> => (FlagAt(cmd, "-w") = {} /\ FlagAt(cmd, "--pwd") = {})
           /\ (w # <<>> /\ runtime = "docker") =>
                  /\ FlagAt(cmd, "--pwd") = {}
                  /\ Cardinality(FlagAt(cmd, "-w")) = 1
                  /\ FlagAt(cmd, "-w") = FlagWith(cmd, "-w", w)
                  /\ \A i \in FlagAt(cmd, "-w") :
                         /\ i + 2 = n
                         /\ \A j \in FlagAt(cmd, "-v") : j + 1 < i
           /\ (w # <<>> /\ runtime # "docker") =>
                  /\ FlagAt(cmd, "-w") = {}
                  /\ Cardinality(FlagAt(cmd, "--pwd")) = 1
                  /\ FlagAt(cmd, "--pwd") = FlagWith(cmd, "--pwd", w)
                  /\ \A i \in FlagAt(cmd, "--pwd") :
                         \A j \in FlagAt(cmd, "--bind") : i + 1 < j

\* C17 witness: singularity with a workdir and two bindings
C17_Witness ==
    /\ ret # <<>>
    /\ runtime = "singularity"
    /\ arg.req.workdir = <<"/", "app">>
    /\ Len(arg.req.volumes) = 2
    /\ cmd[3] = <<"--pwd">>
    /\ cmd[5] = <<"--bind">>

\* C18: engine-specific flags.  docker: the command starts "docker run
\* --rm", has "--gpus all" exactly when GPU is enabled, never --nv nor
\* --writable-tmpfs, and ends with the bare image.  apptainer, singularity:
\* the command starts "<engine> run", has --nv exactly when GPU is enabled
\* and --writable-tmpfs exactly when scratch is requested, never --gpus nor
\* --rm, and ends with the image prefixed with docker://.
C18_EngineFlags ==
    ret # <<>> =>
        LET r == arg.req
        IN IF runtime = "docker"
           THEN /\ SubSeq(cmd, 1, 3) = <<<<"docker">>, <<"run">>, <<"--rm">>>>
                /\ (FlagWith(cmd, "--gpus", <<"all">>) # {}) <=> r.use_gpu
                /\ FlagAt(cmd, "--gpus") = FlagWith(cmd, "--gpus", <<"all">>)
                /\ FlagAt(cmd, "--nv") = {}
                /\ FlagAt(cmd, "--writable-tmpfs") = {}
                /\ cmd[Len(cmd)] = r.image
                /\ Len(cmd) = 4 + (IF r.use_gpu THEN 2 ELSE 0) + 2 * Len(r.volumes)
                              + (IF r.workdir # <<>> THEN 2 ELSE 0)
           ELSE /\ SubSeq(cmd, 1, 2) = <<<<runtime>>, <<"run">>>>
                /\ (FlagAt(cmd, "--nv") # {}) <=> r.use_gpu
                /\ (FlagAt(cmd, "--writable-tmpfs") # {}) <=> r.scratch
                /\ FlagAt(cmd, "--gpus") = {}
                /\ FlagAt(cmd, "--rm") = {}
                /\ cmd[Len(cmd)] = <<"docker://">> \o r.image

\* C18 witness: docker asked for GPU and scratch: --gpus all, and nothing
\* for scratch
C18_Witness ==
    /\ ret # <<>>
    /\ runtime = "docker"
    /\ arg.req.use_gpu
    /\ arg.req.scratch
    /\ arg.req.volumes = <<>>
    /\ arg.req.workdir = <<>>
    /\ cmd = <<<<"docker">>, <<"run">>, <<"--rm">>, <<"--gpus">>, <<"all">>, <<"image">>>>

\* The words of a line, split at single spaces
RECURSIVE SplitSpaces(_, _)
SplitSpaces(line, word) ==
    IF line = <<>> THEN <<word>>
    ELSE IF Head(line) = " " THEN <<word>> \o SplitSpaces(Tail(line), <<>>)
    ELSE SplitSpaces(Tail(line), Append(word, Head(line)))

\* C19: failure contract of run_container.  A zero exit returns the
\* completed process of the constructed command and raises nothing; a
\* non-zero exit raises an error that carries the constructed command, the
\* exit code, and the captured standard error, or N/A when capture was not
\* requested.
C19_FailureContract ==
    ret # <<>> =>
        LET r == ret[1]
        IN /\ r.raised <=> (arg.exit # 0)
           /\ r.code = arg.exit
           /\ ~r.raised => r.command = cmd
           /\ r.raised =>
                  /\ SplitSpaces(r.command, <<>>) = cmd
                  /\ r.runtime = runtime
                  /\ r.error = IF arg.req.capture_output THEN <<"stderr-text">> ELSE <<"N/A">>

\* C19 witness: the engine's process is killed (status 137) in a call that
\* did not capture output
C19_Witness ==
    /\ ret # <<>>
    /\ arg.exit = 137
    /\ ~arg.req.capture_output
    /\ ret[1].raised
    /\ ret[1].code = 137
    /\ ret[1].error = <<"N/A">>

\* The precondition of a stage's executor fails on an input directory of
\* this kind: stages 1 and 3 need a NIfTI file, stage 4 needs T1, T2 and
\* FLAIR
Unmet(stage, ink) ==
    IF stage = 4 THEN ink \notin {"single", "multi"}
    ELSE ink \notin {"partial", "single", "multi", "seg"}

\* C20: precondition check.  In stages 1, 3 and 4, a processed unit whose
\* required inputs are absent was failed by its executor without a
\* container invocation; containers were invoked only for processed units
\* whose inputs were present.  Stage 0 invokes no container.
C20_PreconditionCheck ==
    /\ (spc \in {"loop", "exited"} /\ idx \in {1, 3, 4}) =>
           /\ \A u \in SeqToSet(subjects) \ SeqToSet(todo) :
                  Unmet(idx, InDir(idx)[u]) =>
                      /\ u \notin invoked
                      /\ outcome[u] = "missing"
                      /\ u \in SeqToSet(failed)
           /\ \A u \in invoked :
                  /\ u \in SeqToSet(subjects) \ SeqToSet(todo)
                  /\ ~Unmet(idx, InDir(idx)[u])
    /\ idx = 0 => invoked = {}
    /\ spc \in {"none", "prepare"} => invoked = {}

\* C20 witness: stage 4 ended having failed a unit that lacks a sequence
\* without a container, and having run the container for another unit
C20_Witness ==
    /\ idx = 4
    /\ spc = "exited"
    /\ \E u, v \in Units :
           /\ InDir(4)[u] = "partial"
           /\ outcome[u] = "missing"
           /\ u \notin invoked
           /\ v \in invoked
           /\ outcome[v] = "ok"

\* The output a stage expects in a unit's output directory of this kind:
\* a NIfTI file, for stage 4 a NIfTI file whose name contains "seg"
Expected(stage, k) ==
    IF stage = 4 THEN k = "seg"
    ELSE k \in {"partial", "single", "multi", "seg"}

\* C21: postcondition check.  A processed unit whose container was invoked
\* and exited zero and whose output directory holds no expected output
\* file is in the failed list, with the outcome "no output", and is not
\* counted as a success; every unit counted as a success has its expected
\* output file.
C21_PostconditionCheck ==
    (spc \in {"loop", "exited"} /\ idx > 0) =>
        /\ \A u \in invoked :
               (outcome[u] # "crash" /\ ~Expected(idx, out[idx][u])) =>
                   /\ outcome[u] = "noout"
                   /\ u \in SeqToSet(failed)
        /\ \A u \in SeqToSet(subjects) :
               outcome[u] = "ok" =>
                   /\ Expected(idx, out[idx][u])
                   /\ u \notin SeqToSet(failed)
        /\ successCount = Cardinality({u \in SeqToSet(subjects) : outcome[u] = "ok"})

\* C21 witness: in stage 4 a unit's container exited zero and left no
\* segmentation file: the unit is failed, the stage exits 1
C21_Witness ==
    /\ idx = 4
    /\ spc = "exited"
    /\ scode = EXIT_FAIL
    /\ \E u \in invoked :
           /\ outcome[u] = "noout"
           /\ out[4][u] = "empty"
           /\ u \in SeqToSet(failed)

\* The ways an executor fails a unit
FailureReasons == {"missing", "crash", "noout"}

\* C22 (as claimed): the value an executor returns for one failure reason
\* differs from the value the same executor returns for any other failure
\* reason.
C22_ReasonsDistinct ==
    (res # <<>> /\ arg.fn = "exec" /\ ~res[1].raised
         /\ res[1].reason \in FailureReasons) =>
        \A b \in ExecArgs :
            (b.stage = arg.stage /\ b.comb = arg.comb /\ b.fault = "none") =>
                LET other == ExecutorCall(b.stage, b.comb, b.ink, b.old, b.c,
                                          b.fault, b.t)
                IN (other.reason \in FailureReasons /\ other.reason # res[1].reason)
                       => other.value # res[1].value

\* C23 (as claimed): whatever goes wrong, the executor returns an outcome
\* and raises nothing.
C23_NeverRaises ==
    (res # <<>> /\ arg.fn = "exec") => ~res[1].raised

\* The units of the running stage already handed to an executor
Processed == SeqToSet(subjects) \ SeqToSet(todo)

\* C24 (as claimed): in every stage the units are processed in sorted
\* order: every unit already processed sorts before every unit still to be
\* processed.
C24_SortedOrder ==
    spc = "loop" => \A u \in Processed : \A v \in SeqToSet(todo) : u < v

\* C25, the states: in stage 2, from the moment the loop over the units
\* starts, the units to combine are exactly the discovered units with more
\* than one T2 file; a container is invoked for a processed unit exactly
\* when it is one of them; before the decision no container is invoked.
C25_BranchState ==
    idx = 2 =>
        /\ spc = "prepare" => (invoked = {} /\ combine = {})
        /\ spc \in {"loop", "exited"} =>
               /\ combine = {u \in SeqToSet(subjects) : InDir(2)[u] = "multi"}
               /\ invoked = Processed \cap combine

\* C25, the steps: once decided, the set of units to combine stays as it is
\* until the stage process ends.
C25_BranchStep ==
    (idx = 2 /\ spc = "loop" /\ spc' \in {"loop", "exited"}) => combine' = combine

\* C25: the copy-or-combine branch of stage 2 is decided for every unit
\* before any container invocation and is not revisited.
C25_BranchDecidedFirst == [](C25_BranchState) /\ [][C25_BranchStep]_vars

\* C25 witness: stage 2 has copied one unit and is about to combine the
\* other, no container invoked yet
C25_Witness ==
    /\ idx = 2
    /\ spc = "loop"
    /\ combine # {}
    /\ Len(todo) = 1
    /\ Head(todo) \in combine
    /\ Processed # {}
    /\ invoked = {}

\* A per-unit file made of a header line followed by data lines
HeaderThenData(f) ==
    Len(f) >= 2 /\ f[1] = ReportHeader /\ \A i \in 2..Len(f) : f[i] # ReportHeader

\* The data lines of the per-unit files, the files in the given order
RECURSIVE DataInOrder(_, _)
DataInOrder(files, order) ==
    IF order = <<>> THEN <<>>
    ELSE Tail(files[Head(order)]) \o DataInOrder(files, Tail(order))

\* C26 (as claimed): when every per-unit file is a header line followed by
\* data lines, the merged report is one header line followed by all the
\* data lines of all the files, the files in sorted unit order and each
\* file's lines in their order; no per-unit header line is in the body.
C26_HeaderDedup ==
    (res # <<>> /\ arg.fn = "agg" /\ ~arg.ioerr /\ DOMAIN arg.files # {}
         /\ \A n \in DOMAIN arg.files : HeaderThenData(arg.files[n])) =>
        /\ res[1].agg.written
        /\ res[1].agg.text =
               <<ReportHeader>> \o DataInOrder(arg.files, SortedNames(DOMAIN arg.files))

\* C27: aggregation raises nothing and the exit status of the final stage
\* is 1 exactly when some unit failed, whatever aggregation found; when no
\* per-unit artifact exists no merged report is written and a warning is
\* logged.
C27_MissingInputIsWarning ==
    (res # <<>> /\ arg.fn = "agg") =>
        /\ ~res[1].raised
        /\ res[1].code = (IF arg.failed = <<>> THEN EXIT_OK ELSE EXIT_FAIL)
        /\ DOMAIN arg.files = {} =>
               (~res[1].agg.written /\ res[1].agg.log = "warning")

C27_Witness ==
    /\ res # <<>>
    /\ arg.fn = "agg"
    /\ DOMAIN arg.files = {}
    /\ arg.failed = <<>>
    /\ ~res[1].agg.written
    /\ res[1].code = EXIT_OK

\* The names the Discoverer is to return: the root's directories whose
\* name does not begin with a dot
NonHiddenDirs(root) ==
    IF ~root.exists THEN {}
    ELSE {n \in DOMAIN root.entries : root.entries[n] = "dir" /\ n[1] # "."}

\* C28: the Discoverer returns exactly the non-hidden subdirectories of the
\* input root, each once, in sorted order; when the root is missing or
\* holds none it raises, and the stage processes no unit and exits 1.
C28_Discoverer ==
    (res # <<>> /\ arg.fn = "discover") =>
        IF NonHiddenDirs(arg.root) # {}
        THEN /\ ~res[1].raised
             /\ SeqToSet(res[1].subjects) = NonHiddenDirs(arg.root)
             /\ Len(res[1].subjects) = Cardinality(NonHiddenDirs(arg.root))
             /\ \A i, j \in 1..Len(res[1].subjects) :
                    i < j => StrLess(res[1].subjects[i], res[1].subjects[j])
        ELSE /\ res[1].raised
             /\ res[1].processed = <<>>
             /\ res[1].code = EXIT_FAIL

C28_Witness ==
    /\ res # <<>>
    /\ arg.fn = "discover"
    /\ arg.root.exists
    /\ \E n \in DOMAIN arg.root.entries :
           arg.root.entries[n] = "dir" /\ n[1] = "."
    /\ \E n \in DOMAIN arg.root.entries : arg.root.entries[n] = "file"
    /\ res[1].subjects = << <<"a">>, <<"a", "1">> >>

\* The override as the claim reads it
ForceOn == {"true", "TRUE"}
ForceOff == {"false", "False"}

\* GPU passthrough is requested of the engine: its flag is in the command
GpuRequested ==
    \E i \in 1..Len(res[1].cmd) : res[1].cmd[i] \in {<<"--gpus">>, <<"--nv">>}

\* The three cases of the override
TriState ==
    /\ arg.env \in ForceOff => ~GpuRequested
    /\ arg.env \in ForceOn => GpuRequested
    /\ arg.env \notin (ForceOn \cup ForceOff) =>
           (GpuRequested <=> (arg.which /\ arg.runs))

\* C29 (as claimed): force-off never requests GPU passthrough, force-on
\* always requests it, any other value requests it iff nvidia-smi is
\* present and succeeds.
C29_TriState ==
    (res # <<>> /\ arg.fn = "gpu") => TriState

\* C29 (amended): the same, when the stage is started without --no-gpu;
\* with --no-gpu GPU passthrough is never requested.
C29_TriStateUnlessNoGpu ==
    (res # <<>> /\ arg.fn = "gpu") =>
        IF arg.no_gpu THEN ~GpuRequested ELSE TriState

C29_Witness ==
    /\ res # <<>>
    /\ arg.fn = "gpu"
    /\ arg.env = "TRUE"
    /\ ~arg.which
    /\ ~arg.no_gpu
    /\ GpuRequested

\* C30: on docker pull_image first inspects the local image, pulls exactly
\* when the inspection fails, and raises exactly when that pull fails; on
\* apptainer and singularity it runs no command and never raises.
C30_ImageAvailability ==
    (res # <<>> /\ arg.fn = "pull") =>
        IF arg.rt = "docker"
        THEN /\ Len(res[1].cmds) >= 1
             /\ res[1].cmds[1] = <<<<"docker">>, <<"image">>, <<"inspect">>, Image>>
             /\ (\E i \in 2..Len(res[1].cmds) :
                     res[1].cmds[i] = <<<<"docker">>, <<"pull">>, Image>>)
                    <=> arg.inspect # 0
             /\ Len(res[1].cmds) <= 2
             /\ res[1].raised <=> (arg.inspect # 0 /\ ~arg.pulls)
        ELSE /\ res[1].cmds = <<>>
             /\ ~res[1].raised

C30_Witness ==
    /\ res # <<>>
    /\ arg.fn = "pull"
    /\ arg.rt = "docker"
    /\ arg.inspect # 0
    /\ ~arg.pulls
    /\ Len(res[1].cmds) = 2
    /\ res[1].raised

\* ------------------------------------------------------- the stage chain

\* PipelineConfig.from_project_root: the paths below the project root
ConfigInputDir == <<"TSC_MRI_SUB">>
ConfigResultsDir == <<"results">>
Preprocessing(name) == <<"preprocessing", name>>

\* run_pipeline.main: steps
Steps ==
    << [number |-> 0, script |-> "0_prepare_data.py",
        output_dir |-> Preprocessing("MRI_files")],
       [number |-> 1, script |-> "1_skull_strip.py",
        output_dir |-> Preprocessing("skull_stripped_MRIs")],
       [number |-> 2, script |-> "2_combine_t2.py",
        output_dir |-> Preprocessing("combined_MRIs")],
       [number |-> 3, script |-> "3_register_to_mni.py",
        output_dir |-> Preprocessing("preprocessed_MRIs")],
       [number |-> 4, script |-> "4_segment_tubers.py",
        output_dir |-> ConfigResultsDir] >>

\* mutant: 3_register_to_mni.py reading the skull-stripped files
InputBaseBypassingT2(script) ==
    CASE script = "0_prepare_data.py" -> ConfigInputDir
      [] script = "1_skull_strip.py" -> Preprocessing("MRI_files")
      [] script = "2_combine_t2.py" -> Preprocessing("skull_stripped_MRIs")
      [] script = "3_register_to_mni.py" -> Preprocessing("skull_stripped_MRIs")
      [] script = "4_segment_tubers.py" -> Preprocessing("preprocessed_MRIs")

\* main of each stage script: the root handed to discover_subjects
InputBase(script) ==
    CASE script = "0_prepare_data.py" -> ConfigInputDir
      [] script = "1_skull_strip.py" -> Preprocessing("MRI_files")
      [] script = "2_combine_t2.py" -> Preprocessing("skull_stripped_MRIs")
      [] script = "3_register_to_mni.py" -> Preprocessing("combined_MRIs")
      [] script = "4_segment_tubers.py" -> Preprocessing("preprocessed_MRIs")

\* main of each stage script: the root under which it writes the units
OutputBase(script) ==
    CASE script = "0_prepare_data.py" -> Preprocessing("MRI_files")
      [] script = "1_skull_strip.py" -> Preprocessing("skull_stripped_MRIs")
      [] script = "2_combine_t2.py" -> Preprocessing("combined_MRIs")
      [] script = "3_register_to_mni.py" -> Preprocessing("preprocessed_MRIs")
      [] script = "4_segment_tubers.py" -> ConfigResultsDir

\* The unit directories at a path: the project's input, or the root a
\* stage script writes
DirAt(path) ==
    IF path = ConfigInputDir THEN inp
    ELSE IF \E i \in 1..Len(Steps) : OutputBase(Steps[i].script) = path
    THEN out[Steps[CHOOSE i \in 1..Len(Steps) : OutputBase(Steps[i].script) = path].number]
    ELSE [u \in Units |-> "absent"]

\* The stage definitions at sequence position k
StepsAt(k) == {i \in 1..Len(Steps) : Steps[i].number = k}

\* C31: stage chain.  Each position 0..4 has exactly one stage definition,
\* whose script writes under the definition's output directory; the five
\* output directories are pairwise distinct; for k in 1..4 the root stage
\* k's script discovers its units in is the output directory of stage k-1,
\* and the units a running stage k works on are those of that directory.
C31_StageChain ==
    /\ \A k \in Stages : Cardinality(StepsAt(k)) = 1
    /\ \A i \in 1..Len(Steps) : OutputBase(Steps[i].script) = Steps[i].output_dir
    /\ \A i, j \in 1..Len(Steps) : i # j => Steps[i].output_dir # Steps[j].output_dir
    /\ \A i, j \in 1..Len(Steps) :
           (Steps[i].number >= 1 /\ Steps[j].number = Steps[i].number - 1)
               => InputBase(Steps[i].script) = Steps[j].output_dir
    /\ (pc = "waiting" /\ spc = "loop" /\ idx >= 1) =>
           \E i \in StepsAt(idx) :
               /\ DirAt(InputBase(Steps[i].script)) = out[idx - 1]
               /\ SeqToSet(subjects) = {u \in Units : out[idx - 1][u] # "absent"}

\* C31 witness: stage 3 works on the two units stage 2 left in its output
\* directory
C31_Witness ==
    /\ pc = "waiting"
    /\ spc = "loop"
    /\ idx = 3
    /\ Len(subjects) = 2
    /\ \A u \in SeqToSet(subjects) : out[2][u] # "absent"

\* The stages whose subprocess is running
Running == {k \in Stages : status[k] = "Running"}

\* A step of an orchestrator run that starts a stage subprocess
Starts(k) == k \notin Running /\ status'[k] = "Running"

\* C32 (state): at most one stage subprocess runs, the one the orchestrator
\* waits on, and the stage process of the model is alive only then; every
\* stage before the loop position is over (passed over, skipped or exited)
\* and every stage after it was not started in this run.
C32_OneStageState ==
    /\ Cardinality(Running) <= 1
    /\ \A k \in Running : k = idx /\ pc = "waiting"
    /\ spc # "none" => (pc = "waiting" /\ status[idx] = "Running")
    /\ \A k \in Stages :
           /\ (k < idx /\ k >= startFrom) => status[k] \in {"Skipped", "Succeeded"}
           /\ (k < idx /\ k < startFrom) => status[k] = "Pending"
           /\ k > idx => (status[k] = "Pending" /\ k \notin launched)

\* C32 (step): a stage is started only at the loop position, only when no
\* stage runs and it was not started before in this run; within a run the
\* loop position never decreases, and it advances by one only when the
\* stage at it was passed over, skipped or has exited with success.
C32_OneStageStep ==
    /\ \A k \in Stages :
           Starts(k) => (k = idx /\ Running = {} /\ k \notin launched
                         /\ k \in launched' /\ runNo' = runNo)
    /\ runNo' = runNo => (idx' = idx \/ idx' = idx + 1)
    /\ (runNo' = runNo /\ idx' = idx + 1) =>
           (idx < startFrom \/ status[idx] \in {"Skipped", "Succeeded"})

\* C32: no concurrency between stages.
C32_NoStageConcurrency == [](C32_OneStageState) /\ [][C32_OneStageStep]_vars

\* C32 witness: stage 2 is running after stage 0 succeeded and stage 1 was
\* skipped
C32_Witness ==
    /\ Running = {2}
    /\ status[0] = "Succeeded"
    /\ status[1] = "Skipped"
    /\ 2 \in launched
    /\ spc = "loop"

\* ------------------------------------------------------------ termination

\* A step the orchestrator or the stage subprocess it waits on takes by
\* itself: the next statement of main and run_step, and the stage script
\* running to its exit
Progress ==
    \/ SkipBefore
    \/ StepSkipped
    \/ StepNotLaunched
    \/ StepLaunched
    \/ StepReturned
    \/ Advance
    \/ Halt
    \/ Complete
    \/ StageFatal
    \/ StageNoSubjects
    \/ StageDiscovered
    \/ \E c \in Outcomes : StageUnit(c)
    \/ StageFinish

\* The orchestrator runs on and every stage subprocess eventually exits;
\* interrupts and fatal errors may or may not happen
LiveSpec == Spec /\ WF_vars(Progress)

\* The terminal states of a run
Completed ==
    /\ exitCode = EXIT_OK
    /\ \A k \in Stages : k >= startFrom => status[k] \in {"Skipped", "Succeeded"}
Halted == exitCode = EXIT_FAIL /\ \E k \in Stages : status[k] = "Failed"
Interrupted == exitCode = EXIT_INTERRUPT /\ \E k \in Stages : status[k] = "Aborted"
FatallyEnded ==
    /\ exitCode = EXIT_FAIL
    /\ \A k \in Stages : status[k] # "Failed"
    /\ idx \in Stages /\ status[idx] = "Pending"

\* Once a run has ended no stage is evaluated again in it
C33_NoStepAfterEnd ==
    (pc = "done" /\ runNo' = runNo) =>
        /\ pc' = "done"
        /\ UNCHANGED <<idx, status, launched, exitCode, stageVars>>

\* Every run ends
C33_EveryRunEnds ==
    \A r \in 1..MaxRuns : (runNo = r /\ pc # "done") ~> (runNo = r /\ pc = "done")

\* C33 (as claimed): every run eventually ends, Completed, Halted with a
\* Failed stage or Interrupted, and evaluates no stage after that.
C33_Termination ==
    /\ [](pc = "done" => (Completed \/ Halted \/ Interrupted))
    /\ [][C33_NoStepAfterEnd]_vars
    /\ C33_EveryRunEnds

\* C33 (amended): every run eventually ends, Completed, Halted with a
\* Failed stage, Interrupted, or ended with status 1 by a fatal error that
\* left the stage under evaluation Pending, and evaluates no stage after.
C33_TerminationOrFatal ==
    /\ [](pc = "done" => (Completed \/ Halted \/ Interrupted \/ FatallyEnded))
    /\ [][C33_NoStepAfterEnd]_vars
    /\ C33_EveryRunEnds

\* C33 witness: the second run of a project has ended Halted at stage 3,
\* having skipped stage 2
C33_Witness ==
    /\ runNo = 2
    /\ pc = "done"
    /\ Halted
    /\ status[3] = "Failed"
    /\ status[2] = "Skipped"

\* A sequence names no unit twice
NoRepeat(s) == \A i, j \in 1..Len(s) : i # j => s[i] # s[j]

\* C34 (state): while a stage loops, the units still to be handed to an
\* executor are discovered units, none twice, and are exactly the units
\* without an outcome; in the T2 stage the units to combine are discovered
\* units and only they reach the container; when the stage has ended every
\* discovered unit has its outcome, success_count plus the length of the
\* failed list is the number of discovered units and the failed list names
\* no unit twice.
C34_AccountingState ==
    /\ spc \in {"loop", "exited"} =>
           /\ NoRepeat(subjects)
           /\ NoRepeat(todo)
           /\ NoRepeat(failed)
           /\ {u \in Units : outcome[u] = "none"} \cap SeqToSet(subjects) = SeqToSet(todo)
           /\ SeqToSet(failed) \subseteq SeqToSet(subjects) \ SeqToSet(todo)
           /\ idx = 2 => (combine \subseteq SeqToSet(subjects) /\ invoked \subseteq combine)
    /\ (spc = "exited" /\ subjects # <<>>) =>
           /\ todo = <<>>
           /\ successCount + Len(failed) = Len(subjects)

\* C34 (step): one iteration of a stage's loop hands the first unit still
\* to do, which has no outcome yet, to an executor, gives it its outcome,
\* leaves the outcome of every other unit alone and adds one to either
\* success_count or the failed list.
C34_AccountingStep ==
    (spc = "loop" /\ spc' = "loop" /\ todo' # todo) =>
        /\ todo # <<>>
        /\ todo' = Tail(todo)
        /\ outcome[Head(todo)] = "none"
        /\ outcome'[Head(todo)] # "none"
        /\ \A v \in Units \ {Head(todo)} : outcome'[v] = outcome[v]
        /\ \/ successCount' = successCount + 1 /\ failed' = failed
           \/ successCount' = successCount /\ failed' = Append(failed, Head(todo))

C35_Duration ==
    (res # <<>> /\ arg.fn = "exec" /\ ~res[1].raised
         /\ res[1].reason \in {"ok", "noout"} /\ Len(res[1].value) = 2) =>
        /\ res[1].value[2] = arg.t
        /\ Elapsed(arg.t)[2] \in 0..59
        /\ Elapsed(arg.t)[3] \in 0..59
        /\ Elapsed(arg.t)[1] * 3600 + Elapsed(arg.t)[2] * 60 + Elapsed(arg.t)[3] = arg.t

\* C36 (as claimed, step): an iteration of a stage's loop that ends with
\* the unit's preconditions unmet leaves every output directory as it was.
C36_UnmetStep ==
    (spc = "loop" /\ todo # <<>> /\ todo' = Tail(todo)
         /\ outcome'[Head(todo)] = "missing") => out' = out

\* C36 (as claimed): preconditions are verified before the output directory
\* is created: a unit whose preconditions are unmet gets no output
\* subdirectory in that stage.
C36_PreconditionsFirst == [][C36_UnmetStep]_vars

\* Every invocation so far ran without force
NeverForced == ~force /\ (runNo = 1 \/ Repeats)

\* C37 (as claimed): when an invocation, after invocations without force
\* only, exits with status 0, every unit present in the input root has a
\* non-empty output subdirectory in the results root.
C37_CompleteMeansAllUnits ==
    (pc = "done" /\ exitCode = EXIT_OK /\ NeverForced) =>
        \A u \in Units :
            inp[u] # "absent" => out[NumStages - 1][u] \notin {"absent", "empty"}

\* The output directory of stage k holds a non-empty subdirectory
HasOutput(k) == \E u \in Units : out[k][u] \notin {"absent", "empty"}

\* C38 (step): without force, when the loop stands at a stage k >= 1 that
\* start-from does not pass over and whose output directory holds a
\* non-empty subdirectory, the stage is not launched, and when the loop
\* moves on from it the stage is Skipped.
C38_SkipStep ==
    \A k \in Stages :
        (pc = "loop" /\ idx = k /\ k > 0 /\ k >= startFrom /\ ~force /\ HasOutput(k)) =>
            /\ status'[k] \in {"Pending", "Skipped"}
            /\ k \notin launched'
            /\ pc' = "returned" => (status'[k] = "Skipped" /\ success')

\* C38 (state): a stage is Skipped only in a run without force, when it is
\* stage 1 or later, at or after start-from, and its output directory holds
\* a non-empty subdirectory.
C38_SkipState ==
    \A k \in Stages :
        (status[k] = "Skipped") => (k > 0 /\ k >= startFrom /\ ~force /\ HasOutput(k))

\* C38: start-from does not override skip eligibility.
C38_StartFromKeepsSkip == [](C38_SkipState) /\ [][C38_SkipStep]_vars

\* C38 witness: a run started from stage 2 without force skipped stage 2
\* itself and launched stage 3
C38_Witness ==
    /\ startFrom = 2
    /\ ~force
    /\ status[2] = "Skipped"
    /\ 3 \in launched
    /\ status[1] = "Pending"

\* The unit's output directory of stage k holds what a successful executor
\* of stage k leaves: stage 0 all three sequences, the others a NIfTI file.
\* A unit whose executor failed for missing input, container failure or no
\* output is left with an empty directory instead.
HoldsSuccess(k, u) ==
    IF k = 0 THEN out[k][u] \in {"single", "multi"}
    ELSE out[k][u] \in {"partial", "single", "multi", "seg"}

\* C39 (as claimed): the units a stage k >= 1 works on are units that
\* succeeded in stage k-1; a unit that stage k-1 left without output is not
\* among them.
C39_DiscoversSucceededOnly ==
    (pc = "waiting" /\ spc = "loop" /\ idx >= 1) =>
        \A u \in SeqToSet(subjects) : HoldsSuccess(idx - 1, u)

=============================================================================
